---------------------------- MODULE Spec2Model ----------------------------
(***************************************************************************)
(* Synthesis: a single-node container orchestrator.                        *)
(*                                                                         *)
(* The model covers the state store of pkg/server (the five resource maps  *)
(* of Server and their file snapshot), the API handlers that mutate it,    *)
(* the workload and service controllers of pkg/server/controllers.go and   *)
(* the containerd driver of pkg/runtime/containerd as far as the           *)
(* controllers use it.                                                     *)
(***************************************************************************)
EXTENDS Integers, Sequences, FiniteSets, Bags, TLC

(***************************************************************************)
(* Bounds of the model.                                                    *)
(***************************************************************************)
\* Largest replica count a client submits or scales to.
MaxReplicas == 3
\* The tick counter saturates here.
MaxTicks == 2

(***************************************************************************)
(* Program constants.                                                      *)
(***************************************************************************)
\* replicas default of setDefaultsForDeployment / setDefaultsForStatefulSet
DefaultReplicas == 1
\* graceful stop timeout the workload controller passes to StopContainer
StopTimeout == 30
\* HTTP status codes written by the handlers
StatusOK == 200
StatusCreated == 201
StatusNoContent == 204
StatusBadRequest == 400
StatusNotFound == 404

VARIABLES
    \* Server state (part_001, type Server)
    pods, deployments, statefulsets, services, nodes,
    \* FileStorage: <data-dir>/<category>/<name>.json
    files,
    \* the runtime's containers (containerd namespace "synthesis")
    containers,
    \* the server process is running
    up,
    \* history: completed workload ticks, without a runtime fault, since the
    \* desired state last changed (saturates at MaxTicks)
    ticks,
    \* history: the last completed workload tick issued a runtime call that
    \* changes the runtime (pull, create, start, stop, remove)
    lastTickOps,
    \* history: the process has been restarted at least once
    restarted,
    \* history: per (category, name) the object the last create/update call
    \* returned, dropped by any later write to that slot
    acked,
    \* history: per (category, name) the object last accepted through a
    \* create/update/apply call, after defaulting
    submitted,
    \* history: some snapshot write or removal has failed
    ioFailed,
    \* history: per service the ids of the containers findTargetContainers
    \* returned in the last service tick
    lastTargets,
    \* history: how the GetSystemInfo call of the last node tick ended
    \* ("none" before the first tick of this process)
    lastInfo,
    \* history: every runtime call of the last control-loop tick failed
    outage,
    \* sync.RWMutex of the Server: the goroutine holding it exclusively
    \* ("" if none) and the goroutines holding it shared
    mutex,
    \* per goroutine of the statement-level specification: the handler or
    \* loop it runs, the statements it has left and its local variables
    pc,
    \* the Run goroutines of the control loops: whether the context they
    \* were started with is cancelled and, per loop, where the goroutine is
    \* (in its select, inside a tick, returned), the number of ticks it has
    \* begun and not finished, and the events buffered in its ticker channel
    run

storeVars == <<pods, deployments, statefulsets, services, nodes>>
vars == <<pods, deployments, statefulsets, services, nodes, files, containers,
          up, ticks, lastTickOps, restarted, acked, submitted, ioFailed,
          lastTargets, lastInfo, outage, mutex, pc, run>>
\* the variables only the statement-level specification changes
fineVars == <<mutex, pc, run>>

(***************************************************************************)
(* Go maps: a map is a function whose DOMAIN is the set of present keys.   *)
(***************************************************************************)
EmptyMap == << >>
MapPut(m, k, v) == [x \in (DOMAIN m) \cup {k} |-> IF x = k THEN v ELSE m[x]]
MapDelete(m, k) == [x \in (DOMAIN m) \ {k} |-> m[x]]

(***************************************************************************)
(* Strings the program builds with Sprintf (pod names, container ids) and  *)
(* the label values they are compared with are sequences of tokens; the    *)
(* empty string is the empty sequence.  TokenOrder lists the tokens in     *)
(* byte order, TokenLen gives their length in bytes.                       *)
(***************************************************************************)
TokenOrder ==
    <<"-", "0", "1", "2", "3", "4", "5", "6", "7", "8", "9",
      "db", "frontend", "nginx", "postgres", "synthesis", "web">>
TokenLen ==
    [t \in {TokenOrder[i] : i \in DOMAIN TokenOrder} |->
        CASE t = "web" -> 3
          [] t = "db" -> 2
          [] t = "nginx" -> 5
          [] t \in {"frontend", "postgres"} -> 8
          [] t = "synthesis" -> 9
          [] OTHER -> 1]
TokenRank(t) == CHOOSE i \in DOMAIN TokenOrder : TokenOrder[i] = t

EmptyString == << >>
Str(s) == IF s = "" THEN EmptyString ELSE <<s>>
\* %d of Sprintf
Itoa(i) == TokenOrder[i + 2]

RECURSIVE StrLen(_)
StrLen(s) == IF s = << >> THEN 0 ELSE TokenLen[Head(s)] + StrLen(Tail(s))

\* byte-wise string comparison a < b
RECURSIVE StrLess(_, _)
StrLess(a, b) ==
    IF b = << >> THEN FALSE
    ELSE IF a = << >> THEN TRUE
    ELSE IF Head(a) # Head(b) THEN TokenRank(Head(a)) < TokenRank(Head(b))
    ELSE StrLess(Tail(a), Tail(b))

(***************************************************************************)
(* Label maps (map[string]string) are sets of <<key, value>> pairs with    *)
(* distinct keys.  Indexing a Go map with a missing key yields "".         *)
(***************************************************************************)
LabelGet(labels, key) ==
    IF \E p \in labels : p[1] = key
    THEN (CHOOSE p \in labels : p[1] = key)[2]
    ELSE EmptyString

(***************************************************************************)
(* Time.  A time is seconds plus a sub-second part; the zero time is the   *)
(* value an omitted creationTimestamp decodes to.                          *)
(***************************************************************************)
ZeroTime == [sec |-> 0, frac |-> 0]
IsZero(t) == t = ZeroTime
\* values time.Now() returns in the model
Clock == {[sec |-> 1, frac |-> 1], [sec |-> 2, frac |-> 0]}

(***************************************************************************)
(* Optional int32, a Go pointer to int32: {} is nil, {n} points to n.      *)
(***************************************************************************)
Nil == {}
Ptr(n) == {n}
Deref(p) == CHOOSE n \in p : TRUE

(***************************************************************************)
(* Manifests and stored objects.                                           *)
(*                                                                         *)
(* A decoded request body is a record with the fields the handlers and     *)
(* controllers read: apiVersion, kind, metadata.name,                      *)
(* metadata.creationTimestamp, spec.replicas, the container list of the    *)
(* pod template (or of the pod), spec.selector and spec.type of a Service. *)
(* json.Unmarshal into a typed object keeps the fields of that type.       *)
(***************************************************************************)
Nginx == [name |-> "nginx", image |-> "nginx:1.25"]
Postgres == [name |-> "postgres", image |-> "postgres:16"]

AsDeployment(m) ==
    [apiVersion |-> m.apiVersion, kind |-> m.kind, name |-> m.name,
     creationTimestamp |-> m.creationTimestamp,
     replicas |-> m.replicas, template |-> m.template]

AsStatefulSet(m) ==
    [apiVersion |-> m.apiVersion, kind |-> m.kind, name |-> m.name,
     creationTimestamp |-> m.creationTimestamp,
     replicas |-> m.replicas, template |-> m.template]

AsPod(m) ==
    [apiVersion |-> m.apiVersion, kind |-> m.kind, name |-> m.name,
     creationTimestamp |-> m.creationTimestamp,
     containers |-> m.template]

\* status.loadBalancer.ingress of a decoded Service is empty
AsService(m) ==
    [apiVersion |-> m.apiVersion, kind |-> m.kind, name |-> m.name,
     creationTimestamp |-> m.creationTimestamp,
     selector |-> m.selector, type |-> m.type, ingress |-> << >>]

\* the part of an object the API boundary owns
SpecOf(o) == [f \in (DOMAIN o) \ {"creationTimestamp", "ingress"} |-> o[f]]

(***************************************************************************)
(* Defaults (part_001, the setDefaultsFor functions).                      *)
(***************************************************************************)
setDefaultsForPod(pod, now) ==
    [pod EXCEPT !.apiVersion = IF @ = "" THEN "v1" ELSE @,
                !.kind = IF @ = "" THEN "Pod" ELSE @,
                !.creationTimestamp = IF IsZero(@) THEN now ELSE @]

setDefaultsForDeployment(deployment, now) ==
    [deployment EXCEPT !.apiVersion = IF @ = "" THEN "apps/v1" ELSE @,
                       !.kind = IF @ = "" THEN "Deployment" ELSE @,
                       !.creationTimestamp = IF IsZero(@) THEN now ELSE @,
                       !.replicas = IF @ = Nil THEN Ptr(DefaultReplicas) ELSE @]

\* defaults that leave a missing replica count missing
setDefaultsForStatefulSetKeepsNil(ss, now) ==
    [ss EXCEPT !.apiVersion = IF @ = "" THEN "apps/v1" ELSE @,
               !.kind = IF @ = "" THEN "StatefulSet" ELSE @,
               !.creationTimestamp = IF IsZero(@) THEN now ELSE @]

setDefaultsForStatefulSet(ss, now) ==
    [ss EXCEPT !.apiVersion = IF @ = "" THEN "apps/v1" ELSE @,
               !.kind = IF @ = "" THEN "StatefulSet" ELSE @,
               !.creationTimestamp = IF IsZero(@) THEN now ELSE @,
               !.replicas = IF @ = Nil THEN Ptr(DefaultReplicas) ELSE @]

setDefaultsForService(service, now) ==
    [service EXCEPT !.apiVersion = IF @ = "" THEN "v1" ELSE @,
                    !.kind = IF @ = "" THEN "Service" ELSE @,
                    !.creationTimestamp = IF IsZero(@) THEN now ELSE @]

(***************************************************************************)
(* FileStorage (part_000).  files[category] maps a resource name to the    *)
(* JSON document of <data-dir>/<category>/<name>.json.                     *)
(***************************************************************************)
Categories == {"pods", "deployments", "statefulsets", "services", "nodes"}

\* NewFileStorage: the data directory with its five empty subdirectories
NewFileStorage == [c \in Categories |-> EmptyMap]

\* json.MarshalIndent: metav1.Time is written in RFC 3339, whole seconds
MarshalJSON(obj) ==
    [obj EXCEPT !.creationTimestamp = [sec |-> @.sec, frac |-> 0]]

\* json.Unmarshal of a document MarshalJSON wrote
UnmarshalJSON(doc) == doc

\* storeObject: a failed write leaves the file as it was
storeObject(fs, category, name, obj, ioOK) ==
    IF ioOK THEN [fs EXCEPT ![category] = MapPut(@, name, MarshalJSON(obj))]
    ELSE fs

\* a removal that leaves the file in place
deleteObjectKeepsFile(fs, category, name, ioOK) == fs

\* deleteObject: os.Remove; a missing file is not an error
deleteObject(fs, category, name, ioOK) ==
    IF ioOK THEN [fs EXCEPT ![category] = MapDelete(@, name)]
    ELSE fs

\* listFiles: the names of the .json files of a category
listFiles(fs, category) == DOMAIN fs[category]

\* what ioutil.WriteFile leaves behind when the process dies while writing:
\* a prefix of the document, which is not JSON
TruncatedDocument == [truncated |-> TRUE]
\* json.Unmarshal returns no error
Parses(doc) == doc # TruncatedDocument

\* getObject
getObject(fs, category, name) == UnmarshalJSON(fs[category][name])

\* ListPods / ListDeployments / ListStatefulSets / ListServices: a file
\* getObject fails on is skipped
ListObjects(fs, category) ==
    {getObject(fs, category, f) :
        f \in {g \in listFiles(fs, category) : Parses(fs[category][g])}}

\* loadState: s.<kind>[obj.Name] = obj for every listed object
LoadCategory(fs, category) ==
    LET objs == ListObjects(fs, category) IN
    [n \in {o.name : o \in objs} |-> CHOOSE o \in objs : o.name = n]

(***************************************************************************)
(* API handlers (part_001).  Each handler is one action: decode, default,  *)
(* mutate the map under the lock, persist, reply.                          *)
(*   body  : [ok, manifest], the request body and whether it decodes       *)
(*   now   : the value of time.Now()                                       *)
(*   ioOK  : whether the snapshot write or removal succeeds                *)
(***************************************************************************)
apiFrame ==
    UNCHANGED <<containers, up, lastTickOps, restarted, lastTargets,
                lastInfo, outage, fineVars>>

\* a create/update/apply call returned obj for (category, name)
Accepted(category, name, obj, ioOK) ==
    /\ acked' = MapPut(acked, <<category, name>>, obj)
    /\ submitted' = MapPut(submitted, <<category, name>>, obj)
    /\ ioFailed' = (ioFailed \/ ~ioOK)

\* a delete call removed the slots in keys
Removed(keys, ioOK) ==
    /\ acked' = [k \in (DOMAIN acked) \ keys |-> acked[k]]
    /\ submitted' = [k \in (DOMAIN submitted) \ keys |-> submitted[k]]
    /\ ioFailed' = (ioFailed \/ (keys # {} /\ ~ioOK))

createPodHandler(body, now, ioOK) ==
    /\ IF ~body.ok
       THEN UNCHANGED <<storeVars, files, acked, submitted, ioFailed, ticks>>
       ELSE LET pod == setDefaultsForPod(AsPod(body.manifest), now) IN
            /\ pods' = MapPut(pods, pod.name, pod)
            /\ files' = storeObject(files, "pods", pod.name, pod, ioOK)
            /\ Accepted("pods", pod.name, pod, ioOK)
            /\ UNCHANGED ticks
            /\ UNCHANGED <<deployments, statefulsets, services, nodes>>
    /\ apiFrame

getPodHandler(name) ==
    IF name \in DOMAIN pods
    THEN [code |-> StatusOK, body |-> {pods[name]}]
    ELSE [code |-> StatusNotFound, body |-> {}]

updatePodHandler(name, body, now, ioOK) ==
    /\ IF ~body.ok
       THEN UNCHANGED <<storeVars, files, acked, submitted, ioFailed, ticks>>
       ELSE LET pod == setDefaultsForPod(
                    [AsPod(body.manifest) EXCEPT !.name = name], now) IN
            /\ pods' = MapPut(pods, name, pod)
            /\ files' = storeObject(files, "pods", name, pod, ioOK)
            /\ Accepted("pods", name, pod, ioOK)
            /\ UNCHANGED ticks
            /\ UNCHANGED <<deployments, statefulsets, services, nodes>>
    /\ apiFrame

deletePodHandler(name, ioOK) ==
    /\ pods' = MapDelete(pods, name)
    /\ files' = deleteObject(files, "pods", name, ioOK)
    /\ Removed({<<"pods", name>>}, ioOK)
    /\ UNCHANGED ticks
    /\ UNCHANGED <<deployments, statefulsets, services, nodes>>
    /\ apiFrame

\* a create that gives up when the snapshot write fails
createDeploymentHandlerOrFail(body, now, ioOK) ==
    /\ IF ~body.ok
       THEN UNCHANGED <<storeVars, files, acked, submitted, ioFailed, ticks>>
       ELSE IF ~ioOK
       THEN /\ ioFailed' = TRUE
            /\ UNCHANGED <<storeVars, files, acked, submitted, ticks>>
       ELSE LET deployment == setDefaultsForDeployment(AsDeployment(body.manifest), now) IN
            /\ deployments' = MapPut(deployments, deployment.name, deployment)
            /\ files' = storeObject(files, "deployments", deployment.name, deployment, ioOK)
            /\ Accepted("deployments", deployment.name, deployment, ioOK)
            /\ ticks' = 0
            /\ UNCHANGED <<pods, statefulsets, services, nodes>>
    /\ apiFrame

createDeploymentHandler(body, now, ioOK) ==
    /\ IF ~body.ok
       THEN UNCHANGED <<storeVars, files, acked, submitted, ioFailed, ticks>>
       ELSE LET deployment == setDefaultsForDeployment(AsDeployment(body.manifest), now) IN
            /\ deployments' = MapPut(deployments, deployment.name, deployment)
            /\ files' = storeObject(files, "deployments", deployment.name, deployment, ioOK)
            /\ Accepted("deployments", deployment.name, deployment, ioOK)
            /\ ticks' = 0
            /\ UNCHANGED <<pods, statefulsets, services, nodes>>
    /\ apiFrame

getDeploymentHandler(name) ==
    IF name \in DOMAIN deployments
    THEN [code |-> StatusOK, body |-> {deployments[name]}]
    ELSE [code |-> StatusNotFound, body |-> {}]

\* an update that files the object under the name of the body
updateDeploymentHandlerByBodyName(name, body, now, ioOK) ==
    /\ IF ~body.ok
       THEN UNCHANGED <<storeVars, files, acked, submitted, ioFailed, ticks>>
       ELSE LET deployment == setDefaultsForDeployment(
                    AsDeployment(body.manifest), now) IN
            /\ deployments' = MapPut(deployments, deployment.name, deployment)
            /\ files' = storeObject(files, "deployments", deployment.name,
                                    deployment, ioOK)
            /\ Accepted("deployments", name, deployment, ioOK)
            /\ ticks' = 0
            /\ UNCHANGED <<pods, statefulsets, services, nodes>>
    /\ apiFrame

updateDeploymentHandler(name, body, now, ioOK) ==
    /\ IF ~body.ok
       THEN UNCHANGED <<storeVars, files, acked, submitted, ioFailed, ticks>>
       ELSE LET deployment == setDefaultsForDeployment(
                    [AsDeployment(body.manifest) EXCEPT !.name = name], now) IN
            /\ deployments' = MapPut(deployments, name, deployment)
            /\ files' = storeObject(files, "deployments", name, deployment, ioOK)
            /\ Accepted("deployments", name, deployment, ioOK)
            /\ ticks' = 0
            /\ UNCHANGED <<pods, statefulsets, services, nodes>>
    /\ apiFrame

deleteDeploymentHandler(name, ioOK) ==
    /\ deployments' = MapDelete(deployments, name)
    /\ files' = deleteObject(files, "deployments", name, ioOK)
    /\ Removed({<<"deployments", name>>}, ioOK)
    /\ ticks' = 0
    /\ UNCHANGED <<pods, statefulsets, services, nodes>>
    /\ apiFrame

\* a scale that stores a fresh object built from the scale request
scaleDeploymentHandlerReplaces(name, body, n) ==
    /\ IF ~body.ok
       THEN UNCHANGED <<storeVars, acked, ticks>>
       ELSE /\ deployments' = IF name \in DOMAIN deployments
                        THEN [deployments EXCEPT
                                 ![name].replicas = Ptr(n),
                                 ![name].template = << >>]
                        ELSE deployments
            /\ acked' = MapDelete(acked, <<"deployments", name>>)
            /\ ticks' = 0
            /\ UNCHANGED <<pods, statefulsets, services, nodes>>
    /\ UNCHANGED <<files, submitted, ioFailed>>
    /\ apiFrame

\* deployment.Spec.Replicas = &scaleReq.Spec.Replicas, in place; the snapshot
\* file is not rewritten
scaleDeploymentHandler(name, body, n) ==
    /\ IF ~body.ok
       THEN UNCHANGED <<storeVars, acked, ticks>>
       ELSE /\ deployments' = IF name \in DOMAIN deployments
                        THEN [deployments EXCEPT ![name].replicas = Ptr(n)]
                        ELSE deployments
            /\ acked' = MapDelete(acked, <<"deployments", name>>)
            /\ ticks' = 0
            /\ UNCHANGED <<pods, statefulsets, services, nodes>>
    /\ UNCHANGED <<files, submitted, ioFailed>>
    /\ apiFrame

createStatefulSetHandler(body, now, ioOK) ==
    /\ IF ~body.ok
       THEN UNCHANGED <<storeVars, files, acked, submitted, ioFailed, ticks>>
       ELSE LET ss == setDefaultsForStatefulSet(AsStatefulSet(body.manifest), now) IN
            /\ statefulsets' = MapPut(statefulsets, ss.name, ss)
            /\ files' = storeObject(files, "statefulsets", ss.name, ss, ioOK)
            /\ Accepted("statefulsets", ss.name, ss, ioOK)
            /\ ticks' = 0
            /\ UNCHANGED <<pods, deployments, services, nodes>>
    /\ apiFrame

getStatefulSetHandler(name) ==
    IF name \in DOMAIN statefulsets
    THEN [code |-> StatusOK, body |-> {statefulsets[name]}]
    ELSE [code |-> StatusNotFound, body |-> {}]

updateStatefulSetHandler(name, body, now, ioOK) ==
    /\ IF ~body.ok
       THEN UNCHANGED <<storeVars, files, acked, submitted, ioFailed, ticks>>
       ELSE LET ss == setDefaultsForStatefulSet(
                    [AsStatefulSet(body.manifest) EXCEPT !.name = name], now) IN
            /\ statefulsets' = MapPut(statefulsets, name, ss)
            /\ files' = storeObject(files, "statefulsets", name, ss, ioOK)
            /\ Accepted("statefulsets", name, ss, ioOK)
            /\ ticks' = 0
            /\ UNCHANGED <<pods, deployments, services, nodes>>
    /\ apiFrame

deleteStatefulSetHandler(name, ioOK) ==
    /\ statefulsets' = MapDelete(statefulsets, name)
    /\ files' = deleteObject(files, "statefulsets", name, ioOK)
    /\ Removed({<<"statefulsets", name>>}, ioOK)
    /\ ticks' = 0
    /\ UNCHANGED <<pods, deployments, services, nodes>>
    /\ apiFrame

\* deployment.Spec.Replicas = &scaleReq.Spec.Replicas, in place; the snapshot
\* file is not rewritten
scaleStatefulSetHandler(name, body, n) ==
    /\ IF ~body.ok
       THEN UNCHANGED <<storeVars, acked, ticks>>
       ELSE /\ statefulsets' = IF name \in DOMAIN statefulsets
                        THEN [statefulsets EXCEPT ![name].replicas = Ptr(n)]
                        ELSE statefulsets
            /\ acked' = MapDelete(acked, <<"statefulsets", name>>)
            /\ ticks' = 0
            /\ UNCHANGED <<pods, deployments, services, nodes>>
    /\ UNCHANGED <<files, submitted, ioFailed>>
    /\ apiFrame

createServiceHandler(body, now, ioOK) ==
    /\ IF ~body.ok
       THEN UNCHANGED <<storeVars, files, acked, submitted, ioFailed, ticks>>
       ELSE LET service == setDefaultsForService(AsService(body.manifest), now) IN
            /\ services' = MapPut(services, service.name, service)
            /\ files' = storeObject(files, "services", service.name, service, ioOK)
            /\ Accepted("services", service.name, service, ioOK)
            /\ UNCHANGED ticks
            /\ UNCHANGED <<pods, deployments, statefulsets, nodes>>
    /\ apiFrame

getServiceHandler(name) ==
    IF name \in DOMAIN services
    THEN [code |-> StatusOK, body |-> {services[name]}]
    ELSE [code |-> StatusNotFound, body |-> {}]

updateServiceHandler(name, body, now, ioOK) ==
    /\ IF ~body.ok
       THEN UNCHANGED <<storeVars, files, acked, submitted, ioFailed, ticks>>
       ELSE LET service == setDefaultsForService(
                    [AsService(body.manifest) EXCEPT !.name = name], now) IN
            /\ services' = MapPut(services, name, service)
            /\ files' = storeObject(files, "services", name, service, ioOK)
            /\ Accepted("services", name, service, ioOK)
            /\ UNCHANGED ticks
            /\ UNCHANGED <<pods, deployments, statefulsets, nodes>>
    /\ apiFrame

deleteServiceHandler(name, ioOK) ==
    /\ services' = MapDelete(services, name)
    /\ files' = deleteObject(files, "services", name, ioOK)
    /\ Removed({<<"services", name>>}, ioOK)
    /\ UNCHANGED ticks
    /\ UNCHANGED <<pods, deployments, statefulsets, nodes>>
    /\ apiFrame

(***************************************************************************)
(* Status code of the reply, as a function of the request and the state    *)
(* the handler finds.                                                      *)
(***************************************************************************)
\* typed create / update: 400 when the body does not decode
createStatus(body) == IF body.ok THEN StatusCreated ELSE StatusBadRequest
updateStatus(body) == IF body.ok THEN StatusOK ELSE StatusBadRequest

\* deletePodHandler, deleteDeploymentHandler, deleteStatefulSetHandler,
\* deleteServiceHandler: w.WriteHeader(http.StatusNoContent), whether or not
\* the name was present
deletePodStatus(name) == StatusNoContent
deleteDeploymentStatus(name) == StatusNoContent
deleteStatefulSetStatus(name) == StatusNoContent
deleteServiceStatus(name) == StatusNoContent

\* scale handlers: writeJSON of the scale object, also for an absent name
scaleStatus(body) == IF body.ok THEN StatusOK ELSE StatusBadRequest

(***************************************************************************)
(* Generic workload endpoints /api/v1/workloads and /apply.  The           *)
(* kind switch runs the same statements as the typed handler of that kind. *)
(***************************************************************************)
WorkloadKinds == {"Deployment", "StatefulSet", "Pod"}
ApplyKinds == WorkloadKinds \cup {"Service"}

rejected ==
    /\ UNCHANGED <<storeVars, files, acked, submitted, ioFailed, ticks>>
    /\ apiFrame

\* a generic create that stores a manifest of any other kind as a Pod
createGenericWorkloadHandlerAsPod(body, now, ioOK) ==
    IF ~body.ok THEN rejected
    ELSE CASE body.manifest.kind = "Deployment" ->
                  createDeploymentHandler(body, now, ioOK)
           [] body.manifest.kind = "StatefulSet" ->
                  createStatefulSetHandler(body, now, ioOK)
           [] OTHER -> createPodHandler(body, now, ioOK)

createGenericWorkloadHandler(body, now, ioOK) ==
    IF ~body.ok THEN rejected
    ELSE CASE body.manifest.kind = "Deployment" ->
                  createDeploymentHandler(body, now, ioOK)
           [] body.manifest.kind = "StatefulSet" ->
                  createStatefulSetHandler(body, now, ioOK)
           [] body.manifest.kind = "Pod" ->
                  createPodHandler(body, now, ioOK)
           [] OTHER -> rejected

createGenericWorkloadStatus(body) ==
    IF body.ok /\ body.manifest.kind \in WorkloadKinds
    THEN StatusCreated ELSE StatusBadRequest

\* deployments first, then statefulsets, then pods
getGenericWorkloadHandler(name) ==
    IF name \in DOMAIN deployments
    THEN [code |-> StatusOK, body |-> {deployments[name]}]
    ELSE IF name \in DOMAIN statefulsets
    THEN [code |-> StatusOK, body |-> {statefulsets[name]}]
    ELSE IF name \in DOMAIN pods
    THEN [code |-> StatusOK, body |-> {pods[name]}]
    ELSE [code |-> StatusNotFound, body |-> {}]

updateGenericWorkloadHandler(name, body, now, ioOK) ==
    IF ~body.ok THEN rejected
    ELSE CASE body.manifest.kind = "Deployment" ->
                  updateDeploymentHandler(name, body, now, ioOK)
           [] body.manifest.kind = "StatefulSet" ->
                  updateStatefulSetHandler(name, body, now, ioOK)
           [] body.manifest.kind = "Pod" ->
                  updatePodHandler(name, body, now, ioOK)
           [] OTHER -> rejected

updateGenericWorkloadStatus(body) ==
    IF body.ok /\ body.manifest.kind \in WorkloadKinds
    THEN StatusOK ELSE StatusBadRequest

\* removes the name from every workload map that holds it, under one lock
deleteGenericWorkloadHandler(name, ioOK) ==
    LET inDeployments == name \in DOMAIN deployments
        inStatefulSets == name \in DOMAIN statefulsets
        inPods == name \in DOMAIN pods
        keys == (IF inDeployments THEN {<<"deployments", name>>} ELSE {})
                \cup (IF inStatefulSets THEN {<<"statefulsets", name>>} ELSE {})
                \cup (IF inPods THEN {<<"pods", name>>} ELSE {})
        fs1 == IF inDeployments
               THEN deleteObject(files, "deployments", name, ioOK) ELSE files
        fs2 == IF inStatefulSets
               THEN deleteObject(fs1, "statefulsets", name, ioOK) ELSE fs1
        fs3 == IF inPods
               THEN deleteObject(fs2, "pods", name, ioOK) ELSE fs2
    IN  /\ deployments' = MapDelete(deployments, name)
        /\ statefulsets' = MapDelete(statefulsets, name)
        /\ pods' = MapDelete(pods, name)
        /\ files' = fs3
        /\ Removed(keys, ioOK)
        /\ ticks' = IF inDeployments \/ inStatefulSets THEN 0 ELSE ticks
        /\ UNCHANGED <<services, nodes>>
        /\ apiFrame

\* deleted ? 204 : 404 "Workload not found"
deleteGenericWorkloadStatus(name) ==
    IF \/ name \in DOMAIN deployments
       \/ name \in DOMAIN statefulsets
       \/ name \in DOMAIN pods
    THEN StatusNoContent
    ELSE StatusNotFound

\* POST /apply: as create, for the four kinds; replies 200
\* an apply that also takes manifests of kind Node
applyManifestHandlerWithNodes(body, now, ioOK) ==
    IF body.ok /\ body.manifest.kind = "Node"
    THEN /\ nodes' = MapPut(nodes, body.manifest.name,
                        [apiVersion |-> "v1", kind |-> "Node",
                         name |-> body.manifest.name,
                         capacity |-> [cpu |-> 0, memory |-> 0],
                         ready |-> "Unknown", lastHeartbeatTime |-> now])
         /\ UNCHANGED <<pods, deployments, statefulsets, services, files,
                        acked, submitted, ioFailed, ticks>>
         /\ apiFrame
    ELSE IF ~body.ok THEN rejected
    ELSE CASE body.manifest.kind = "Pod" ->
                  createPodHandler(body, now, ioOK)
           [] body.manifest.kind = "Deployment" ->
                  createDeploymentHandler(body, now, ioOK)
           [] body.manifest.kind = "StatefulSet" ->
                  createStatefulSetHandler(body, now, ioOK)
           [] body.manifest.kind = "Service" ->
                  createServiceHandler(body, now, ioOK)
           [] OTHER -> rejected

applyManifestHandler(body, now, ioOK) ==
    IF ~body.ok THEN rejected
    ELSE CASE body.manifest.kind = "Pod" ->
                  createPodHandler(body, now, ioOK)
           [] body.manifest.kind = "Deployment" ->
                  createDeploymentHandler(body, now, ioOK)
           [] body.manifest.kind = "StatefulSet" ->
                  createStatefulSetHandler(body, now, ioOK)
           [] body.manifest.kind = "Service" ->
                  createServiceHandler(body, now, ioOK)
           [] OTHER -> rejected

applyManifestStatus(body) ==
    IF body.ok /\ body.manifest.kind \in ApplyKinds
    THEN StatusOK ELSE StatusBadRequest

(***************************************************************************)
(* The container runtime (pkg/runtime/containerd).  containers is the bag  *)
(* of containers of the namespace; a container is [id, labels, status].    *)
(* A runtime call can fail: F is the set of <<call, argument>> pairs that  *)
(* fail during the tick that passes it.                                    *)
(***************************************************************************)
\* the methods of the runtime interface the control loops call
RuntimeCalls ==
    {"list", "pull", "image", "create", "inspect", "start", "stop", "remove",
     "info"}

\* an outage: every runtime call of a tick returns an error
RuntimeOutage == {<<call, <<"*">>>> : call \in RuntimeCalls}
IsOutage(F) == RuntimeOutage \subseteq F

\* the call with this argument fails under the faults F
Fails(call, arg, F) == <<call, arg>> \in F \/ <<call, <<"*">>>> \in F

ContainerStatusCreated == "created"
ContainerStatusRunning == "running"
ContainerStatusExited == "exited"

WithId(cs, id) == {c \in DOMAIN cs : c.id = id}

\* NewContainer refuses an id the namespace already holds
IdInUse(cs, id) == WithId(cs, id) # {}

\* labels that also name the owning workload, under both owner keys
ContainerLabelsWithOwner(podName, spec) ==
    {<<"synthesis.pod", podName>>,
     <<"synthesis.container", Str(spec.name)>>,
     <<"managed-by", Str("synthesis")>>,
     <<"synthesis.deployment", SubSeq(podName, 1, Len(podName) - 2)>>,
     <<"synthesis.statefulset", SubSeq(podName, 1, Len(podName) - 2)>>}

\* the driver's labels; DefaultLabels of the configuration are not applied
ContainerLabels(podName, spec) ==
    {<<"synthesis.pod", podName>>,
     <<"synthesis.container", Str(spec.name)>>,
     <<"managed-by", Str("synthesis")>>}

\* Sprintf("%s-%s", podName, spec.Name)
ContainerName(podName, spec) == podName \o <<"-">> \o Str(spec.name)

\* CreateContainer: GetImage (or pull), NewContainer, InspectContainer
CreateContainer(cs, spec, podName, F) ==
    LET containerName == ContainerName(podName, spec)
        info == [id |-> containerName,
                 labels |-> ContainerLabels(podName, spec),
                 status |-> ContainerStatusCreated]
    IN  IF Fails("image", containerName, F)
        THEN [cs |-> cs, err |-> TRUE, id |-> containerName]
        ELSE IF Fails("create", containerName, F) \/ IdInUse(cs, containerName)
        THEN [cs |-> cs, err |-> TRUE, id |-> containerName]
        ELSE [cs |-> cs (+) SetToBag({info}),
              err |-> Fails("inspect", containerName, F),
              id |-> containerName]

\* StartContainer: LoadContainer, NewTask, Start
StartContainer(cs, id, F) ==
    IF \/ Fails("start", id, F)
       \/ ~\E c \in WithId(cs, id) : c.status = ContainerStatusCreated
    THEN [cs |-> cs, err |-> TRUE]
    ELSE LET c == CHOOSE x \in WithId(cs, id) : x.status = ContainerStatusCreated
         IN  [cs |-> (cs (-) SetToBag({c}))
                     (+) SetToBag({[c EXCEPT !.status = ContainerStatusRunning]}),
              err |-> FALSE]

\* StopContainer: LoadContainer, Task, Kill, Wait(timeout)
StopContainer(cs, id, timeout, F) ==
    IF \/ Fails("stop", id, F)
       \/ ~\E c \in WithId(cs, id) : c.status = ContainerStatusRunning
    THEN [cs |-> cs, err |-> TRUE]
    ELSE LET c == CHOOSE x \in WithId(cs, id) : x.status = ContainerStatusRunning
         IN  [cs |-> (cs (-) SetToBag({c}))
                     (+) SetToBag({[c EXCEPT !.status = ContainerStatusExited]}),
              err |-> FALSE]

\* RemoveContainer: LoadContainer, task.Delete, container.Delete
RemoveContainer(cs, id, F) ==
    IF Fails("remove", id, F) \/ ~IdInUse(cs, id)
    THEN [cs |-> cs, err |-> TRUE]
    ELSE [cs |-> cs (-) SetToBag({CHOOSE x \in WithId(cs, id) : TRUE}),
          err |-> FALSE]

\* matchesFilters, label part: info.Labels[key] != value
matchesFilters(info, filterLabels) ==
    \A p \in filterLabels : LabelGet(info.labels, p[1]) = p[2]

\* the order in which the runtime lists: "asc" by id, "desc" reversed
ListOrders == {"asc", "desc"}
Before(a, b, order) == IF order = "asc" THEN StrLess(a, b) ELSE StrLess(b, a)

RECURSIVE BagToSeq(_, _)
BagToSeq(b, order) ==
    IF DOMAIN b = {} THEN << >>
    ELSE LET ids == {c.id : c \in DOMAIN b}
             first == CHOOSE i \in ids : \A j \in ids \ {i} : Before(i, j, order)
             c == CHOOSE x \in DOMAIN b : x.id = first
         IN  <<c>> \o BagToSeq(b (-) SetToBag({c}), order)

\* ListContainers: every container of the namespace that passes the filter
ListContainers(cs, filterLabels, order) ==
    LET matching == {c \in DOMAIN cs : matchesFilters(c, filterLabels)}
    IN  BagToSeq([c \in matching |-> cs[c]], order)

(***************************************************************************)
(* Workload controller (pkg/server/controllers.go).  The operators thread  *)
(* a record rt through the runtime calls of one tick:                      *)
(*   cs    the runtime's containers                                        *)
(*   ops   a call that changes the runtime (pull, create, start, stop,     *)
(*         remove) has been issued                                         *)
(*   panic the goroutine has panicked, which ends the process              *)
(*   err   the function returned an error                                  *)
(*   log   the calls of the runtime interface issued so far, in order      *)
(***************************************************************************)
\* a call of the runtime interface: the method, the container id (or the
\* workload name for a list) and the timeout argument of StopContainer
Call(call, arg, timeout) == [call |-> call, arg |-> arg, timeout |-> timeout]
Issue(rt, call, arg) == Append(rt.log, Call(call, arg, 0))

\* container.ID[:12] in the log line after a successful start
IdPrefixLen == 12

\* Sprintf("%s-%d", workloadName, replica)
PodName(workloadName, replica) == Str(workloadName) \o <<"-", Itoa(replica)>>

\* a loop body that gives the replica up when PullImage fails
RECURSIVE createContainersPullAborts(_, _, _, _, _)
createContainersPullAborts(rt, podName, template, j, F) ==
    IF j > Len(template) THEN [rt EXCEPT !.err = FALSE]
    ELSE LET id == ContainerName(podName, template[j])
             created == CreateContainer(rt.cs, template[j], podName, F)
             pulled == Issue(rt, "pull", id)
             logCreate == Append(pulled, Call("create", id, 0))
             logStart == Append(logCreate, Call("start", id, 0))
         IN
         IF Fails("pull", id, F)
         THEN [rt EXCEPT !.ops = TRUE, !.err = TRUE, !.log = pulled]
         ELSE IF created.err
         THEN [cs |-> created.cs, ops |-> TRUE, panic |-> FALSE, err |-> TRUE,
               log |-> logCreate]
         ELSE LET started == StartContainer(created.cs, created.id, F) IN
              IF started.err
              THEN [cs |-> RemoveContainer(started.cs, created.id, F).cs,
                    ops |-> TRUE, panic |-> FALSE, err |-> TRUE,
                    log |-> Append(logStart, Call("remove", id, 0))]
              ELSE createContainersPullAborts(
                       [cs |-> started.cs, ops |-> TRUE, panic |-> FALSE,
                        err |-> FALSE, log |-> logStart],
                       podName, template, j + 1, F)

\* the body of the loop over template.Spec.Containers, from container j on:
\* PullImage (an error is logged), CreateContainer, StartContainer, and
\* RemoveContainer when the start fails
RECURSIVE createContainers(_, _, _, _, _)
createContainers(rt, podName, template, j, F) ==
    IF j > Len(template) THEN [rt EXCEPT !.err = FALSE]
    ELSE LET id == ContainerName(podName, template[j])
             created == CreateContainer(rt.cs, template[j], podName, F)
             pulled == Issue(rt, "pull", id)
             logCreate == Append(pulled, Call("create", id, 0))
             logStart == Append(logCreate, Call("start", id, 0))
         IN
         IF created.err
         THEN [cs |-> created.cs, ops |-> TRUE, panic |-> FALSE, err |-> TRUE,
               log |-> logCreate]
         ELSE LET started == StartContainer(created.cs, created.id, F) IN
              IF started.err
              THEN [cs |-> RemoveContainer(started.cs, created.id, F).cs,
                    ops |-> TRUE, panic |-> FALSE, err |-> TRUE,
                    log |-> Append(logStart, Call("remove", id, 0))]
              ELSE IF StrLen(created.id) < IdPrefixLen
              THEN [cs |-> started.cs, ops |-> TRUE, panic |-> TRUE,
                    err |-> TRUE, log |-> logStart]
              ELSE createContainers(
                       [cs |-> started.cs, ops |-> TRUE, panic |-> FALSE,
                        err |-> FALSE, log |-> logStart],
                       podName, template, j + 1, F)

createPodFromTemplate(rt, workloadName, template, replica, F) ==
    createContainers(rt, PodName(workloadName, replica), template, 1, F)

\* a scale-up loop that returns at the first replica that fails
RECURSIVE scaleUpUntilError(_, _, _, _, _, _, _)
scaleUpUntilError(rt, workloadName, template, currentReplicas, i, needed, F) ==
    IF i >= needed \/ rt.panic \/ (i > 0 /\ rt.err) THEN rt
    ELSE scaleUpUntilError(
             createPodFromTemplate(rt, workloadName, template,
                                   currentReplicas + i, F),
             workloadName, template, currentReplicas, i + 1, needed, F)

\* for i := 0; i < needed; i++ { createPodFromTemplate(.., currentReplicas+i) }
RECURSIVE scaleUp(_, _, _, _, _, _, _)
scaleUp(rt, workloadName, template, currentReplicas, i, needed, F) ==
    IF i >= needed \/ rt.panic THEN rt
    ELSE scaleUp(createPodFromTemplate(rt, workloadName, template,
                                       currentReplicas + i, F),
                 workloadName, template, currentReplicas, i + 1, needed, F)

\* for i := 0; i < excess && i < len(currentContainers); i++ { stop; remove }
RECURSIVE scaleDown(_, _, _, _, _)
scaleDown(rt, currentContainers, i, excess, F) ==
    IF i >= excess \/ i >= Len(currentContainers) THEN rt
    ELSE LET container == currentContainers[i + 1]
             stopped == StopContainer(rt.cs, container.id, StopTimeout, F)
             logStop == Append(rt.log, Call("stop", container.id, StopTimeout))
         IN  IF stopped.err
             THEN scaleDown([rt EXCEPT !.ops = TRUE, !.log = logStop],
                            currentContainers, i + 1, excess, F)
             ELSE scaleDown(
                      [rt EXCEPT !.ops = TRUE,
                                 !.cs = RemoveContainer(stopped.cs,
                                                        container.id, F).cs,
                                 !.log = Append(logStop,
                                                Call("remove", container.id, 0))],
                      currentContainers, i + 1, excess, F)

\* the part reconcileDeployment and reconcileStatefulSet share: compare
\* len(currentContainers) with the desired count and scale
reconcileReplicas(rt, workloadName, replicas, template, currentContainers, F) ==
    LET desiredReplicas == IF replicas = Nil THEN 1 ELSE Deref(replicas)
        currentReplicas == Len(currentContainers)
    IN  IF currentReplicas < desiredReplicas
        THEN [scaleUp(rt, workloadName, template, currentReplicas, 0,
                      desiredReplicas - currentReplicas, F)
                 EXCEPT !.err = FALSE]
        ELSE IF currentReplicas > desiredReplicas
        THEN scaleDown(rt, currentContainers, 0,
                       currentReplicas - desiredReplicas, F)
        ELSE rt

reconcileDeployment(rt, deployment, F, order) ==
    IF Fails("list", Str(deployment.name), F)
    THEN [rt EXCEPT !.err = TRUE,
                    !.log = Issue(rt, "list", Str(deployment.name))]
    ELSE reconcileReplicas(
             [rt EXCEPT !.err = FALSE,
                        !.log = Issue(rt, "list", Str(deployment.name))],
             deployment.name, deployment.replicas,
             deployment.template,
             ListContainers(rt.cs,
                            {<<"synthesis.deployment", Str(deployment.name)>>},
                            order),
             F)

reconcileStatefulSet(rt, statefulset, F, order) ==
    IF Fails("list", Str(statefulset.name), F)
    THEN [rt EXCEPT !.err = TRUE,
                    !.log = Issue(rt, "list", Str(statefulset.name))]
    ELSE reconcileReplicas(
             [rt EXCEPT !.err = FALSE,
                        !.log = Issue(rt, "list", Str(statefulset.name))],
             statefulset.name, statefulset.replicas,
             statefulset.template,
             ListContainers(rt.cs,
                            {<<"synthesis.statefulset", Str(statefulset.name)>>},
                            order),
             F)

\* the keys of a map in the order a range loop visits them
RECURSIVE RangeOrder(_, _)
RangeOrder(keys, order) ==
    IF keys = {} THEN << >>
    ELSE LET k == CHOOSE x \in keys :
                      \A y \in keys \ {x} : Before(Str(x), Str(y), order)
         IN  <<k>> \o RangeOrder(keys \ {k}, order)

RECURSIVE reconcileAllDeployments(_, _, _, _)
reconcileAllDeployments(rt, names, F, order) ==
    IF names = << >> \/ rt.panic THEN rt
    ELSE reconcileAllDeployments(
             reconcileDeployment(rt, deployments[Head(names)], F, order),
             Tail(names), F, order)

RECURSIVE reconcileAllStatefulSets(_, _, _, _)
reconcileAllStatefulSets(rt, names, F, order) ==
    IF names = << >> \/ rt.panic THEN rt
    ELSE reconcileAllStatefulSets(
             reconcileStatefulSet(rt, statefulsets[Head(names)], F, order),
             Tail(names), F, order)

\* reconcileWorkloads: every deployment, then every statefulset
reconcileWorkloadsResult(F, order) ==
    reconcileAllStatefulSets(
        reconcileAllDeployments(
            [cs |-> containers, ops |-> FALSE, panic |-> FALSE, err |-> FALSE,
             log |-> << >>],
            RangeOrder(DOMAIN deployments, order), F, order),
        RangeOrder(DOMAIN statefulsets, order), F, order)

\* an unrecovered panic in a goroutine ends the process: its memory is gone
ProcessDies ==
    /\ up' = FALSE
    /\ pods' = EmptyMap
    /\ deployments' = EmptyMap
    /\ statefulsets' = EmptyMap
    /\ services' = EmptyMap
    /\ nodes' = EmptyMap
    /\ acked' = EmptyMap
    /\ lastTargets' = EmptyMap
    /\ lastInfo' = "none"
    /\ ticks' = 0

\* one tick of WorkloadController.Run
reconcileWorkloads(F, order) ==
    \E rt \in {reconcileWorkloadsResult(F, order)} :
    /\ containers' = rt.cs
    /\ lastTickOps' = rt.ops
    /\ IF rt.panic
       THEN ProcessDies
       ELSE /\ ticks' = IF F # {} THEN 0
                        ELSE IF ticks < MaxTicks THEN ticks + 1 ELSE ticks
            /\ UNCHANGED <<storeVars, up, acked, lastTargets, lastInfo>>
    /\ outage' = IsOutage(F)
    /\ UNCHANGED <<files, restarted, submitted, ioFailed, fineVars>>

(***************************************************************************)
(* Service controller (pkg/server/controllers.go).                         *)
(***************************************************************************)
ServiceTypeNodePort == "NodePort"
LocalNodeIP == "127.0.0.1"

\* matchesSelector: containerLabels[key] != value
matchesSelector(containerLabels, selector) ==
    \A p \in selector : LabelGet(containerLabels, p[1]) = p[2]

\* findTargetContainers: the managed containers that pass matchesSelector
findTargetContainers(cs, selector, F, order) ==
    IF Fails("list", Str("synthesis"), F)
    THEN [err |-> TRUE, listed |-> << >>, targets |-> << >>]
    ELSE LET allContainers ==
                 ListContainers(cs, {<<"managed-by", Str("synthesis")>>}, order)
             matches(c) == matchesSelector(c.labels, selector)
         IN  [err |-> FALSE, listed |-> allContainers,
              targets |-> SelectSeq(allContainers, matches)]

\* a status update that also turns the stored Service into a NodePort one
updateServiceStatusAsNodePort(svcs, service) ==
    IF service.name \in DOMAIN svcs
    THEN [svcs EXCEPT ![service.name].type = ServiceTypeNodePort,
                      ![service.name].ingress = <<LocalNodeIP>>]
    ELSE svcs

\* a status update that adds the ingress entry to the ones the status has
updateServiceStatusAppends(svcs, service) ==
    IF service.name \in DOMAIN svcs /\ service.type = ServiceTypeNodePort
    THEN [svcs EXCEPT ![service.name].ingress = Append(@, LocalNodeIP)]
    ELSE svcs

\* updateServiceStatus: the type is read from the controller's copy, the
\* ingress is written to the object the map holds now
updateServiceStatus(svcs, service) ==
    IF service.name \in DOMAIN svcs /\ service.type = ServiceTypeNodePort
    THEN [svcs EXCEPT ![service.name].ingress = <<LocalNodeIP>>]
    ELSE svcs

\* reconcileService for the services in names, in turn
RECURSIVE reconcileEachService(_, _, _, _, _)
reconcileEachService(st, snapshot, names, F, order) ==
    IF names = << >> THEN st
    ELSE LET service == snapshot[Head(names)]
             found == findTargetContainers(containers, service.selector, F, order)
         IN  IF found.err
             THEN reconcileEachService(st, snapshot, Tail(names), F, order)
             ELSE reconcileEachService(
                      [svcs |-> updateServiceStatus(st.svcs, service),
                       seen |-> MapPut(st.seen, service.name,
                                   [selector |-> service.selector,
                                    listed |-> found.listed,
                                    targets |-> found.targets])],
                      snapshot, Tail(names), F, order)

\* one tick of ServiceController.Run
reconcileServices(F, order) ==
    LET st == reconcileEachService([svcs |-> services, seen |-> EmptyMap],
                                   services,
                                   RangeOrder(DOMAIN services, order), F, order)
        written == {n \in DOMAIN services : st.svcs[n] # services[n]}
    IN  /\ services' = st.svcs
        /\ lastTargets' = st.seen
        /\ acked' = [k \in (DOMAIN acked) \ {<<"services", n>> : n \in written}
                        |-> acked[k]]
        /\ outage' = IsOutage(F)
        /\ UNCHANGED <<pods, deployments, statefulsets, nodes, files,
                       containers, up, ticks, lastTickOps, restarted,
                       submitted, ioFailed, lastInfo, fineVars>>

(***************************************************************************)
(* Node reporter (part_001, runNodeController and updateNodeStatus).       *)
(***************************************************************************)
LocalNodeName == "local-node"
ConditionTrue == "True"

\* what GetSystemInfo returns: an error, or the host's figures
SystemInfos ==
    {[err |-> TRUE, ncpu |-> 0, memTotal |-> 0],
     [err |-> FALSE, ncpu |-> 4, memTotal |-> 8]}

\* the Node object updateNodeStatus builds from info
NodeFrom(info, now) ==
    [apiVersion |-> "v1", kind |-> "Node", name |-> LocalNodeName,
     capacity |-> [cpu |-> info.ncpu, memory |-> info.memTotal],
     ready |-> ConditionTrue, lastHeartbeatTime |-> now]

\* one tick of runNodeController: on an error of GetSystemInfo the function
\* returns before it touches the map
updateNodeStatus(info, now) ==
    /\ IF info.err
       THEN /\ lastInfo' = "failed"
            /\ UNCHANGED nodes
       ELSE /\ lastInfo' = "ok"
            /\ nodes' = MapPut(nodes, LocalNodeName, NodeFrom(info, now))
    /\ outage' = info.err
    /\ UNCHANGED <<pods, deployments, statefulsets, services, files,
                   containers, up, ticks, lastTickOps, restarted, acked,
                   submitted, ioFailed, lastTargets, fineVars>>

\* GET /api/v1/nodes/{name}
getNodeHandler(name) ==
    IF name \in DOMAIN nodes
    THEN [code |-> StatusOK, body |-> {nodes[name]}]
    ELSE [code |-> StatusNotFound, body |-> {}]

(***************************************************************************)
(* Process start: NewServer builds empty maps and loadState fills them     *)
(* from the snapshot; nodes are not loaded.  The runtime keeps its         *)
(* containers across the restart.                                          *)
(***************************************************************************)
\* the mutex with no holder, and no goroutine of the statement-level
\* specification started
Unlocked == [writer |-> "", readers |-> {}]
NoGoroutines == EmptyMap

\* StartControllers: one goroutine per control loop, each with a new ticker
\* and the context of runServer
Loops == {"workload", "service", "node"}
StartControllers ==
    [cancelled |-> FALSE,
     loop |-> [g \in Loops |-> [at |-> "select", inTick |-> 0, ticker |-> 0]]]

loadState ==
    /\ pods' = LoadCategory(files, "pods")
    /\ deployments' = LoadCategory(files, "deployments")
    /\ statefulsets' = LoadCategory(files, "statefulsets")
    /\ services' = LoadCategory(files, "services")
    /\ nodes' = EmptyMap

\* the process is killed, if it runs, and started again on the same data-dir
Restart ==
    /\ loadState
    /\ up' = TRUE
    /\ restarted' = TRUE
    /\ ticks' = 0
    /\ acked' = EmptyMap
    /\ lastTargets' = EmptyMap
    /\ lastInfo' = "none"
    /\ outage' = FALSE
    /\ mutex' = Unlocked
    /\ pc' = NoGoroutines
    /\ run' = StartControllers
    /\ UNCHANGED <<files, containers, lastTickOps, submitted, ioFailed>>

\* first start on an empty data directory and an empty runtime namespace
Init ==
    /\ pods = EmptyMap
    /\ deployments = EmptyMap
    /\ statefulsets = EmptyMap
    /\ services = EmptyMap
    /\ nodes = EmptyMap
    /\ files = NewFileStorage
    /\ containers = EmptyBag
    /\ up = TRUE
    /\ ticks = 0
    /\ lastTickOps = FALSE
    /\ restarted = FALSE
    /\ acked = EmptyMap
    /\ submitted = EmptyMap
    /\ ioFailed = FALSE
    /\ lastTargets = EmptyMap
    /\ lastInfo = "none"
    /\ outage = FALSE
    /\ mutex = Unlocked
    /\ pc = NoGoroutines
    /\ run = StartControllers

(***************************************************************************)
(* Requests.  A request body either fails to decode or carries a manifest. *)
(***************************************************************************)
Manifest(kind, name, replicas, template, selector, type) ==
    [apiVersion |-> "", kind |-> kind, name |-> name,
     creationTimestamp |-> ZeroTime, replicas |-> replicas,
     template |-> template, selector |-> selector, type |-> type]

Body(m) == [ok |-> TRUE, manifest |-> m]
\* a body that is not JSON
BadBody == [ok |-> FALSE, manifest |-> Manifest("", "", Nil, << >>, {}, "")]

\* the value of time.Now() during a request
Now == CHOOSE t \in Clock : t.frac # 0

DeploymentNames == {"web", "db"}
ServiceNames == {"web"}
ReplicaInputs == {Nil, Ptr(MaxReplicas)}
ScaleInputs == {0, MaxReplicas - 1}
ServiceTypes == {"ClusterIP", ServiceTypeNodePort}

\* the body of a scale request: {"spec": {"replicas": k}}
ScaleBody(k) == Body(Manifest("", "", Ptr(k), << >>, {}, ""))

DeploymentBodies ==
    {BadBody} \cup
    {Body(Manifest("Deployment", n, r, <<Nginx>>, {}, "")) :
        n \in DeploymentNames, r \in ReplicaInputs}
ServiceBodies ==
    {BadBody} \cup
    {Body(Manifest("Service", n, Nil, << >>, {<<"app", Str("web")>>}, t)) :
        n \in ServiceNames, t \in ServiceTypes}
\* a manifest of a kind no endpoint knows
UnknownBody == Body(Manifest("Job", "web", Nil, <<Nginx>>, {}, ""))

(***************************************************************************)
(* Spec: the API over Deployments and Services, a process restart and the  *)
(* service controller.  A snapshot write or removal can fail.              *)
(***************************************************************************)
CreateDeployment ==
    up /\ \E b \in DeploymentBodies, ioOK \in BOOLEAN :
              createDeploymentHandler(b, Now, ioOK)
UpdateDeployment ==
    up /\ \E n \in DeploymentNames, b \in DeploymentBodies, ioOK \in BOOLEAN :
              updateDeploymentHandler(n, b, Now, ioOK)
DeleteDeployment ==
    up /\ \E n \in DeploymentNames, ioOK \in BOOLEAN :
              deleteDeploymentHandler(n, ioOK)
ScaleDeployment ==
    up /\ \E n \in DeploymentNames, k \in ScaleInputs :
              scaleDeploymentHandler(n, ScaleBody(k), k)

CreateService ==
    up /\ \E b \in ServiceBodies : createServiceHandler(b, Now, TRUE)
UpdateService ==
    up /\ \E n \in ServiceNames, b \in ServiceBodies :
              updateServiceHandler(n, b, Now, TRUE)
DeleteService == up /\ \E n \in ServiceNames : deleteServiceHandler(n, TRUE)

CreateGenericWorkload ==
    up /\ \E b \in DeploymentBodies \cup {UnknownBody} :
              createGenericWorkloadHandler(b, Now, TRUE)
UpdateGenericWorkload ==
    up /\ \E n \in DeploymentNames, b \in DeploymentBodies \cup {UnknownBody} :
              updateGenericWorkloadHandler(n, b, Now, TRUE)
DeleteGenericWorkload ==
    up /\ \E n \in DeploymentNames : deleteGenericWorkloadHandler(n, TRUE)
ApplyManifest ==
    up /\ \E b \in DeploymentBodies \cup ServiceBodies \cup {UnknownBody} :
              applyManifestHandler(b, Now, TRUE)

ServiceTick == up /\ reconcileServices({}, "asc")

Next ==
    \/ CreateDeployment \/ UpdateDeployment \/ DeleteDeployment
    \/ ScaleDeployment
    \/ CreateService \/ UpdateService \/ DeleteService
    \/ CreateGenericWorkload \/ UpdateGenericWorkload
    \/ DeleteGenericWorkload \/ ApplyManifest
    \/ ServiceTick
    \/ Restart

Spec == Init /\ [][Next]_vars

(***************************************************************************)
(* Properties of the API over the store.                                   *)
(***************************************************************************)
StoreOf(category) ==
    CASE category = "pods" -> pods
      [] category = "deployments" -> deployments
      [] category = "statefulsets" -> statefulsets
      [] category = "services" -> services
      [] category = "nodes" -> nodes

Get(category, name) ==
    CASE category = "pods" -> getPodHandler(name)
      [] category = "deployments" -> getDeploymentHandler(name)
      [] category = "statefulsets" -> getStatefulSetHandler(name)
      [] category = "services" -> getServiceHandler(name)

ApiCategories == {"pods", "deployments", "statefulsets", "services"}
ApiNames == DeploymentNames \cup ServiceNames

\* C7: while the running process has returned v for a create or update of
\* (kind, name) and no later put, delete, scale or status write touched
\* (kind, name), a get of (kind, name) answers 200 with v; a get of a
\* (kind, name) that was never accepted, or was deleted, answers 404.
ReadYourWrites ==
    /\ \A k \in DOMAIN acked :
           Get(k[1], k[2]) = [code |-> StatusOK, body |-> {acked[k]}]
    /\ ~ioFailed =>
           \A c \in ApiCategories, n \in ApiNames :
               <<c, n>> \notin DOMAIN submitted =>
                   Get(c, n) = [code |-> StatusNotFound, body |-> {}]

\* C7 witness: an acknowledged Deployment is still readable after another
\* Deployment was written and scaled and the Service was deleted again.
ReadYourWritesWitness ==
    /\ up /\ ~ioFailed
    /\ <<"deployments", "web">> \in DOMAIN acked
    /\ acked[<<"deployments", "web">>].replicas = Ptr(MaxReplicas)
    /\ "db" \in DOMAIN deployments
    /\ <<"deployments", "db">> \notin DOMAIN acked
    /\ <<"services", "web">> \notin DOMAIN submitted
    /\ restarted

\* C8: when no snapshot write or removal has failed, a restart loads, per
\* kind, exactly the names accepted through create/update/apply and not
\* deleted since, each with the spec that was accepted after defaulting.
DurableAcrossRestart ==
    [][(Restart /\ ~ioFailed) =>
          \A c \in ApiCategories :
              /\ DOMAIN StoreOf(c)' = {k[2] : k \in {x \in DOMAIN submitted : x[1] = c}}
              /\ \A n \in DOMAIN StoreOf(c)' :
                     SpecOf(StoreOf(c)'[n]) = SpecOf(submitted[<<c, n>>])]_vars

\* C8 witness: after a restart the store holds two Deployments and one
\* Service, all as loaded from the snapshot.
DurableAcrossRestartWitness ==
    /\ up /\ restarted /\ ~ioFailed
    /\ acked = EmptyMap
    /\ DOMAIN deployments = DeploymentNames
    /\ DOMAIN services = ServiceNames
    /\ \A n \in DOMAIN deployments : deployments[n].creationTimestamp.frac = 0
    /\ \A n \in DOMAIN services : services[n].creationTimestamp.frac = 0
    /\ \E n \in DOMAIN deployments : deployments[n].replicas = Ptr(MaxReplicas)

(***************************************************************************)
(* SpecReconcile: the workload controller over a Deployment "frontend" and *)
(* a StatefulSet "db", with the calls that change their desired state, a   *)
(* runtime in which at most one call fails per tick, and process restarts. *)
(***************************************************************************)
\* the runtime calls a tick can issue for the pods of a workload
FaultsOf(workloadName, spec, maxReplicas, calls) ==
    {<<"list", Str(workloadName)>>} \cup
    {<<op, ContainerName(PodName(workloadName, i), spec)>> :
        op \in calls, i \in 0 .. maxReplicas - 1}

\* no call fails, or exactly one does
FaultSets(faults) == {{}} \cup {{f} : f \in faults}

ReconcileFaults ==
    FaultsOf("frontend", Nginx, MaxReplicas, {"create", "start"})
    \cup FaultsOf("db", Postgres, 1, {"image", "create", "inspect", "start"})

SubmitFrontend ==
    up /\ \E r \in ReplicaInputs :
              createDeploymentHandler(
                  Body(Manifest("Deployment", "frontend", r, <<Nginx>>, {}, "")),
                  Now, TRUE)
ScaleFrontend ==
    up /\ \E k \in 0 .. MaxReplicas :
              scaleDeploymentHandler("frontend", ScaleBody(k), k)
DeleteFrontend == up /\ deleteDeploymentHandler("frontend", TRUE)

SubmitDb ==
    up /\ createStatefulSetHandler(
              Body(Manifest("StatefulSet", "db", Nil, <<Postgres>>, {}, "")),
              Now, TRUE)
ScaleDb == up /\ scaleStatefulSetHandler("db", ScaleBody(0), 0)
DeleteDb == up /\ deleteStatefulSetHandler("db", TRUE)

WorkloadTick ==
    up /\ \E F \in FaultSets(ReconcileFaults) : reconcileWorkloads(F, "asc")

NextReconcile ==
    \/ SubmitFrontend \/ ScaleFrontend \/ DeleteFrontend
    \/ SubmitDb \/ ScaleDb \/ DeleteDb
    \/ WorkloadTick
    \/ Restart

SpecReconcile == Init /\ [][NextReconcile]_vars

(***************************************************************************)
(* Properties of the workload controller.                                  *)
(***************************************************************************)
\* desiredReplicas of reconcileDeployment / reconcileStatefulSet
Desired(workload) ==
    IF workload.replicas = Nil THEN 1 ELSE Deref(workload.replicas)

\* what the runtime lists for the owner label of a workload
ListedForDeployment(name) ==
    ListContainers(containers, {<<"synthesis.deployment", Str(name)>>}, "asc")
ListedForStatefulSet(name) ==
    ListContainers(containers, {<<"synthesis.statefulset", Str(name)>>}, "asc")

\* the containers of the pods <name>-<i>, counted with multiplicity
ContainersOf(name) ==
    LET mine == {c \in DOMAIN containers :
                    \E i \in 0 .. MaxReplicas :
                        LabelGet(c.labels, "synthesis.pod") = PodName(name, i)}
    IN  BagCardinality([c \in mine |-> containers[c]])

\* MaxTicks ticks have completed, none with a failing runtime call, since
\* the desired state last changed
Settled == up /\ ticks = MaxTicks

\* C1: once MaxTicks fault-free ticks have run on a fixed desired state, the
\* number of containers listed for the owner label of every stored
\* Deployment and StatefulSet equals its replica count.
Convergence ==
    Settled =>
        /\ \A n \in DOMAIN deployments :
               Len(ListedForDeployment(n)) = Desired(deployments[n])
        /\ \A n \in DOMAIN statefulsets :
               Len(ListedForStatefulSet(n)) = Desired(statefulsets[n])

\* C2: every container created for a pod of Deployment "frontend" or of
\* StatefulSet "db" carries managed-by, a container label and the owner
\* label, so that the filter the reconciler lists with selects it.
OwnershipLabels ==
    \A c \in DOMAIN containers :
        /\ LabelGet(c.labels, "managed-by") = Str("synthesis")
        /\ LabelGet(c.labels, "synthesis.container") # EmptyString
        /\ \A i \in 0 .. MaxReplicas :
               /\ LabelGet(c.labels, "synthesis.pod") = PodName("frontend", i)
                      => matchesFilters(c, {<<"synthesis.deployment",
                                              Str("frontend")>>})
               /\ LabelGet(c.labels, "synthesis.pod") = PodName("db", i)
                      => matchesFilters(c, {<<"synthesis.statefulset",
                                              Str("db")>>})

\* no two containers for the same container of the same pod
NoDuplicates ==
    \A c1, c2 \in DOMAIN containers :
        /\ containers[c1] = 1
        /\ (/\ LabelGet(c1.labels, "synthesis.pod")
                   = LabelGet(c2.labels, "synthesis.pod")
            /\ LabelGet(c1.labels, "synthesis.container")
                   = LabelGet(c2.labels, "synthesis.container"))
               => c1 = c2

\* no stored workload has more containers than replicas
NotOverReplicas ==
    /\ \A n \in DOMAIN deployments :
           ContainersOf(n) <= Desired(deployments[n])
    /\ \A n \in DOMAIN statefulsets :
           ContainersOf(n) <= Desired(statefulsets[n])

\* C3: killing a running process between ticks and starting it again on
\* the same snapshot and the same runtime leaves no workload with duplicate
\* containers or with more containers than its replica count, if it had
\* neither before.
CrashSafety ==
    [][(up /\ Restart /\ NoDuplicates /\ NotOverReplicas)
          => (NoDuplicates /\ NotOverReplicas)']_vars

\* the replica count of a stored workload was last set by a scale call
ScaledDeployment(n) ==
    /\ n \in DOMAIN deployments
    /\ <<"deployments", n>> \in DOMAIN submitted
    /\ deployments[n].replicas # submitted[<<"deployments", n>>].replicas
ScaledStatefulSet(n) ==
    /\ n \in DOMAIN statefulsets
    /\ <<"statefulsets", n>> \in DOMAIN submitted
    /\ statefulsets[n].replicas # submitted[<<"statefulsets", n>>].replicas

\* C4: after a scale to N and MaxTicks fault-free ticks, listing the
\* containers of the workload gives exactly N.
ScaleRoundTrip ==
    Settled =>
        /\ \A n \in DOMAIN deployments :
               ScaledDeployment(n) =>
                   /\ Len(ListedForDeployment(n)) = Desired(deployments[n])
                   /\ ContainersOf(n) = Desired(deployments[n])
        /\ \A n \in DOMAIN statefulsets :
               ScaledStatefulSet(n) =>
                   /\ Len(ListedForStatefulSet(n)) = Desired(statefulsets[n])
                   /\ ContainersOf(n) = Desired(statefulsets[n])

\* C5: once the workloads have been reconciled (MaxTicks fault-free ticks
\* on a fixed desired state), the last tick issued no pull, create, start,
\* stop or remove.
QuietOnceReconciled == Settled => ~lastTickOps

(***************************************************************************)
(* SpecS1: the scale-up scenario.  A Deployment "web" with MaxReplicas     *)
(* replicas of one container "nginx" is submitted; the workload controller *)
(* ticks; the process can be restarted.                                    *)
(***************************************************************************)
SubmitWeb ==
    up /\ createDeploymentHandler(
              Body(Manifest("Deployment", "web", Ptr(MaxReplicas), <<Nginx>>,
                            {}, "")),
              Now, TRUE)

TickWeb ==
    up /\ \E F \in FaultSets(FaultsOf("web", Nginx, MaxReplicas,
                                      {"create", "inspect", "start"})) :
              reconcileWorkloads(F, "asc")

DeleteWeb == up /\ deleteDeploymentHandler("web", TRUE)

NextS1 == SubmitWeb \/ DeleteWeb \/ TickWeb \/ Restart

SpecS1 == Init /\ [][NextS1]_vars

\* C10: once Deployment "web" is accepted with MaxReplicas (three) replicas
\* of container "nginx" and MaxTicks (two) fault-free ticks have run, or
\* the process has ended in a tick, listing by the label deployment=web
\* returns exactly the containers of the pods web-0, web-1, web-2, each
\* labelled managed-by, deployment=web, pod=web-<i> and container=nginx.
ScaleUpScenario ==
    (<<"deployments", "web">> \in DOMAIN submitted /\ (Settled \/ ~up)) =>
        LET listed == ListedForDeployment("web") IN
        /\ Len(listed) = MaxReplicas
        /\ {LabelGet(listed[i].labels, "synthesis.pod") : i \in DOMAIN listed}
               = {PodName("web", i) : i \in 0 .. MaxReplicas - 1}
        /\ \A i \in DOMAIN listed :
               /\ LabelGet(listed[i].labels, "managed-by") = Str("synthesis")
               /\ LabelGet(listed[i].labels, "synthesis.deployment") = Str("web")
               /\ LabelGet(listed[i].labels, "synthesis.container") = Str("nginx")

(***************************************************************************)
(* SpecService: the service controller over a Service "web" with varying   *)
(* selectors, and the containers the workload controller creates.          *)
(***************************************************************************)
ServiceSelectors ==
    {{},
     {<<"app", Str("web")>>},
     {<<"app", EmptyString>>},
     {<<"synthesis.container", Str("nginx")>>},
     {<<"synthesis.container", Str("nginx")>>, <<"app", Str("web")>>}}

SubmitService ==
    up /\ \E selector \in ServiceSelectors, t \in ServiceTypes :
              createServiceHandler(
                  Body(Manifest("Service", "web", Nil, << >>, selector, t)),
                  Now, TRUE)

ServiceTickAny ==
    up /\ \E F \in FaultSets({<<"list", Str("synthesis")>>}),
             order \in ListOrders :
              reconcileServices(F, order)

\* a workload tick in which no runtime call fails
WorkloadTickOK == up /\ reconcileWorkloads({}, "asc")

NextService ==
    \/ SubmitService \/ DeleteService \/ ServiceTickAny
    \/ SubmitFrontend \/ SubmitDb \/ WorkloadTickOK

SpecService == Init /\ [][NextService]_vars

\* C9: in every service tick, a listed managed container is among the
\* targets of the Service if and only if each (key, value) pair of the
\* selector is a label of the container.
SelectorMatching ==
    \A n \in DOMAIN lastTargets :
        LET seen == lastTargets[n] IN
        \A i \in DOMAIN seen.listed :
            (\E j \in DOMAIN seen.targets : seen.targets[j] = seen.listed[i])
                <=> (\A p \in seen.selector : p \in seen.listed[i].labels)

(***************************************************************************)
(* SpecWorkloads: the typed Pod and StatefulSet endpoints and the generic  *)
(* workload endpoints over one name, which a Pod, a StatefulSet and a      *)
(* Deployment can hold at the same time; and process restarts.             *)
(***************************************************************************)
WorkloadNames == {"web"}
PodBodies ==
    {BadBody} \cup
    {Body(Manifest("Pod", n, Nil, <<Nginx>>, {}, "")) : n \in WorkloadNames}
StatefulSetBodies ==
    {BadBody} \cup
    {Body(Manifest("StatefulSet", n, r, <<Postgres>>, {}, "")) :
        n \in WorkloadNames, r \in ReplicaInputs}
WorkloadBodies ==
    PodBodies \cup StatefulSetBodies \cup {UnknownBody}
    \cup {Body(Manifest("Deployment", n, Nil, <<Nginx>>, {}, "")) :
             n \in WorkloadNames}

CreatePod == up /\ \E b \in PodBodies : createPodHandler(b, Now, TRUE)
UpdatePod ==
    up /\ \E n \in WorkloadNames, b \in PodBodies :
              updatePodHandler(n, b, Now, TRUE)
DeletePod == up /\ \E n \in WorkloadNames : deletePodHandler(n, TRUE)

CreateStatefulSet ==
    up /\ \E b \in StatefulSetBodies : createStatefulSetHandler(b, Now, TRUE)
UpdateStatefulSet ==
    up /\ \E n \in WorkloadNames, b \in StatefulSetBodies :
              updateStatefulSetHandler(n, b, Now, TRUE)
DeleteStatefulSet ==
    up /\ \E n \in WorkloadNames : deleteStatefulSetHandler(n, TRUE)
ScaleStatefulSet ==
    up /\ \E n \in WorkloadNames, k \in ScaleInputs :
              scaleStatefulSetHandler(n, ScaleBody(k), k)

CreateWorkload ==
    up /\ \E b \in WorkloadBodies : createGenericWorkloadHandler(b, Now, TRUE)
UpdateWorkload ==
    up /\ \E n \in WorkloadNames, b \in WorkloadBodies :
              updateGenericWorkloadHandler(n, b, Now, TRUE)
DeleteWorkload ==
    up /\ \E n \in WorkloadNames, ioOK \in BOOLEAN :
              deleteGenericWorkloadHandler(n, ioOK)

NextWorkloads ==
    \/ CreatePod \/ UpdatePod \/ DeletePod
    \/ CreateStatefulSet \/ UpdateStatefulSet \/ DeleteStatefulSet
    \/ ScaleStatefulSet
    \/ CreateWorkload \/ UpdateWorkload \/ DeleteWorkload
    \/ Restart

SpecWorkloads == Init /\ [][NextWorkloads]_vars

\* C6: every delete entry point answers success (204), for a present and
\* for an absent name: the four kind-specific deletes and the generic
\* workload delete.
IdempotentDelete ==
    \A n \in WorkloadNames :
        /\ deletePodStatus(n) = StatusNoContent
        /\ deleteDeploymentStatus(n) = StatusNoContent
        /\ deleteStatefulSetStatus(n) = StatusNoContent
        /\ deleteServiceStatus(n) = StatusNoContent
        /\ deleteGenericWorkloadStatus(n) = StatusNoContent

(***************************************************************************)
(* Service status after a tick (SpecService).                              *)
(***************************************************************************)
\* a step is a service tick that reconciled service n: the tick's record of
\* n is new and n is still stored
ReconciledService(n) ==
    /\ lastTargets' # lastTargets
    /\ n \in DOMAIN lastTargets'
    /\ n \in DOMAIN services'

\* C11: after a service tick whose listing succeeded, the stored Service's
\* status has one endpoint per container matching its selector (3 endpoints
\* when 3 containers match).
EndpointResolution ==
    [][\A n \in ServiceNames :
          (ReconciledService(n) /\ Len(lastTargets'[n].targets) >= 1)
              => Len(services'[n].ingress) = Len(lastTargets'[n].targets)]_vars

(***************************************************************************)
(* SpecLoops: the three control loops (workload, service, node) over a     *)
(* Deployment "frontend", a StatefulSet "db", a Pod and a Service "web",   *)
(* with a runtime that works or is out for a whole tick, and process       *)
(* restarts.                                                               *)
(***************************************************************************)
\* no runtime call of the tick fails, or every call does
LoopFaultSets == {{}, RuntimeOutage}

CreateFrontend ==
    up /\ createDeploymentHandler(
              Body(Manifest("Deployment", "frontend", Nil, <<Nginx>>, {}, "")),
              Now, TRUE)
CreateWebPod ==
    up /\ createPodHandler(Body(Manifest("Pod", "web", Nil, <<Nginx>>, {}, "")),
                           Now, TRUE)
CreateWebService ==
    up /\ \E b \in ServiceBodies \ {BadBody} : createServiceHandler(b, Now, TRUE)

WorkloadTickLoops ==
    up /\ \E F \in LoopFaultSets : reconcileWorkloads(F, "asc")
ServiceTickLoops ==
    up /\ \E F \in LoopFaultSets : reconcileServices(F, "asc")
NodeTick == up /\ \E info \in SystemInfos : updateNodeStatus(info, Now)

NextLoops ==
    \/ CreateFrontend \/ SubmitDb \/ CreateWebPod \/ CreateWebService
    \/ WorkloadTickLoops \/ ServiceTickLoops \/ NodeTick
    \/ Restart

SpecLoops == Init /\ [][NextLoops]_vars

\* the Ready condition the stored local node reports
NodeReady ==
    /\ LocalNodeName \in DOMAIN nodes
    /\ nodes[LocalNodeName].ready = ConditionTrue

\* C12: after every node-reporter tick the stored local node reports
\* Ready = True if and only if the GetSystemInfo call of that tick succeeded.
ReadyIffInfo == (up /\ lastInfo # "none") => (NodeReady <=> lastInfo = "ok")

\* the stored resources of the four API kinds, without their status subtree
\* and without the timestamp a reload rounds
StoredSpecs ==
    [c \in ApiCategories |-> [n \in DOMAIN StoreOf(c) |-> SpecOf(StoreOf(c)[n])]]

\* a step of one of the three control loops
ControlLoopStep == WorkloadTickLoops \/ ServiceTickLoops \/ NodeTick

\* C13: a control-loop tick that leaves the process running neither adds nor
\* removes a stored Pod, Deployment, StatefulSet or Service nor changes its
\* spec, and it writes no snapshot file; this includes the ticks in which
\* every runtime call fails.
LoopsKeepSpecs ==
    [][(ControlLoopStep /\ up')
          => (StoredSpecs' = StoredSpecs /\ files' = files)]_vars

\* after an outage tick of the service loop the four kinds are all stored,
\* and the service loop has written a status before
LoopsKeepSpecsWitness ==
    /\ up /\ outage
    /\ "web" \in DOMAIN pods /\ "frontend" \in DOMAIN deployments
    /\ "db" \in DOMAIN statefulsets /\ "web" \in DOMAIN services
    /\ services["web"].ingress # << >>
    /\ containers # EmptyBag

(***************************************************************************)
(* SpecPersist: the typed Deployment endpoints with snapshot writes and    *)
(* removals that can fail, and process restarts.                           *)
(***************************************************************************)
NextPersist ==
    \/ CreateDeployment \/ UpdateDeployment \/ DeleteDeployment
    \/ Restart

SpecPersist == Init /\ [][NextPersist]_vars

\* the call create or update of a Deployment with this body, during which
\* the snapshot write fails
FailedPersist(b, n) ==
    \/ createDeploymentHandler(b, Now, FALSE) /\ n = b.manifest.name
    \/ updateDeploymentHandler(n, b, Now, FALSE)

\* C14: a create or update whose snapshot write fails still answers success
\* (201, 200), installs the new value in memory, where the next read returns
\* it, and leaves the snapshot as it was.
PersistFailureTolerated ==
    [][\A b \in DeploymentBodies \ {BadBody}, n \in DeploymentNames :
          (up /\ FailedPersist(b, n))
              => /\ createStatus(b) = StatusCreated
                 /\ updateStatus(b) = StatusOK
                 /\ getDeploymentHandler(n)'.code = StatusOK
                 /\ getDeploymentHandler(n)'.body = {acked'[<<"deployments", n>>]}
                 /\ SpecOf(deployments'[n])
                        = SpecOf(setDefaultsForDeployment(
                              [AsDeployment(b.manifest) EXCEPT !.name = n], Now))
                 /\ files' = files]_vars

\* a Deployment that is in memory, acknowledged, and in no snapshot file
PersistFailureToleratedWitness ==
    /\ up /\ ioFailed
    /\ "web" \in DOMAIN deployments
    /\ <<"deployments", "web">> \in DOMAIN acked
    /\ "web" \notin DOMAIN files["deployments"]
    /\ deployments["web"].replicas = Ptr(MaxReplicas)

(***************************************************************************)
(* SpecApi: every endpoint that writes the store, for all kinds, with      *)
(* well-formed bodies and with bodies that do not decode, carry no kind,   *)
(* or name a kind the endpoint does not know; the node reporter; process   *)
(* restarts.                                                               *)
(***************************************************************************)
\* a manifest without a kind field
KindlessBody == Body(Manifest("", "web", Nil, <<Nginx>>, {}, ""))
\* a manifest of kind Node
NodeBody == Body(Manifest("Node", LocalNodeName, Nil, << >>, {}, ""))

\* does not decode / no kind / a kind that no switch of the API lists
InvalidBodies == {BadBody, KindlessBody, UnknownBody, NodeBody}

ApplyBodies == WorkloadBodies \cup ServiceBodies \cup InvalidBodies

\* the typed create and update endpoints do not look at the kind
CreatePodUnchecked ==
    up /\ \E b \in InvalidBodies : createPodHandler(b, Now, TRUE)
CreateDeploymentUnchecked ==
    up /\ \E b \in InvalidBodies : createDeploymentHandler(b, Now, TRUE)
UpdateServiceUnchecked ==
    up /\ \E n \in ServiceNames, b \in InvalidBodies :
              updateServiceHandler(n, b, Now, TRUE)

CreateWorkloadInvalid ==
    up /\ \E b \in InvalidBodies : createGenericWorkloadHandler(b, Now, TRUE)
UpdateWorkloadInvalid ==
    up /\ \E n \in WorkloadNames, b \in InvalidBodies :
              updateGenericWorkloadHandler(n, b, Now, TRUE)
ApplyAny == up /\ \E b \in ApplyBodies : applyManifestHandler(b, Now, TRUE)

\* a manifest without apiVersion, kind and replicas sent to each typed create
CreateKindless ==
    /\ up
    /\ \/ createPodHandler(KindlessBody, Now, TRUE)
       \/ createDeploymentHandler(KindlessBody, Now, TRUE)
       \/ createStatefulSetHandler(KindlessBody, Now, TRUE)
       \/ createServiceHandler(KindlessBody, Now, TRUE)

NextApi ==
    \/ CreatePod \/ UpdatePod \/ DeletePod
    \/ CreateStatefulSet \/ UpdateStatefulSet \/ DeleteStatefulSet
    \/ CreateService \/ UpdateService \/ DeleteService
    \/ CreateWorkload \/ UpdateWorkload \/ DeleteWorkload
    \/ CreateWorkloadInvalid \/ UpdateWorkloadInvalid \/ ApplyAny
    \/ CreateKindless
    \/ NodeTick
    \/ Restart

SpecApi == Init /\ [][NextApi]_vars

NextReject ==
    \/ CreatePodUnchecked \/ CreateDeploymentUnchecked \/ UpdateServiceUnchecked
    \/ CreateWorkloadInvalid \/ UpdateWorkloadInvalid \/ ApplyAny
    \/ DeleteWorkload \/ DeleteService
    \/ Restart

SpecReject == Init /\ [][NextReject]_vars

(***************************************************************************)
(* C15  Defaults.                                                          *)
(***************************************************************************)
StoredObjects(category) == {StoreOf(category)[n] : n \in DOMAIN StoreOf(category)}

StoreWellFormed ==
    /\ \A c \in Categories : \A o \in StoredObjects(c) :
           o.apiVersion # "" /\ o.kind # ""
    /\ \A o \in StoredObjects("deployments") \cup StoredObjects("statefulsets") :
           o.replicas # Nil

\* bodies that decode and carry no replica count
OmittedReplicas ==
    {b \in WorkloadBodies \cup {KindlessBody} :
        b.ok /\ b.manifest.replicas = Nil}

\* C15: every stored resource has a non-empty apiVersion and kind, every
\* stored Deployment and StatefulSet has a replica count, and a create or
\* update whose manifest omits the replica count stores exactly 1.
DefaultsApplied ==
    /\ []StoreWellFormed
    /\ [][\A b \in OmittedReplicas, n \in WorkloadNames :
            /\ (up /\ (\/ createDeploymentHandler(b, Now, TRUE)
                             /\ n = b.manifest.name
                       \/ updateDeploymentHandler(n, b, Now, TRUE)))
                  => deployments'[n].replicas = Ptr(DefaultReplicas)
            /\ (up /\ (\/ createStatefulSetHandler(b, Now, TRUE)
                             /\ n = b.manifest.name
                       \/ updateStatefulSetHandler(n, b, Now, TRUE)))
                  => statefulsets'[n].replicas = Ptr(DefaultReplicas)]_vars

\* all five kinds stored, three of them from the manifest without kind and
\* replica count
DefaultsAppliedWitness ==
    /\ up
    /\ "web" \in DOMAIN pods
    /\ "web" \in DOMAIN deployments
    /\ "web" \in DOMAIN statefulsets
    /\ "web" \in DOMAIN services
    /\ LocalNodeName \in DOMAIN nodes
    /\ statefulsets["web"].template = <<Nginx>>
    /\ statefulsets["web"].kind = "StatefulSet"
    /\ statefulsets["web"].replicas = Ptr(DefaultReplicas)
    /\ deployments["web"].replicas = Ptr(DefaultReplicas)
    /\ services["web"].type = ""
    /\ services["web"].kind = "Service"

(***************************************************************************)
(* C16  The Node.                                                          *)
(***************************************************************************)
\* C16: the store holds at most one Node, named local-node; a step that
\* changes the node map is a tick of the node reporter (or the start of a
\* new process, whose map is empty), so no API operation creates, updates
\* or deletes a Node.
SingleNode ==
    /\ [](DOMAIN nodes \subseteq {LocalNodeName})
    /\ [][nodes' # nodes => (NodeTick \/ Restart)]_vars

\* the Node written by the reporter is stored next to resources written
\* through the API
SingleNodeWitness ==
    /\ up
    /\ DOMAIN nodes = {LocalNodeName}
    /\ lastInfo = "ok"
    /\ "web" \in DOMAIN pods
    /\ "web" \in DOMAIN services
    /\ "web" \in DOMAIN deployments

(***************************************************************************)
(* C17  Rejected manifests.                                                *)
(***************************************************************************)
\* a request to an endpoint that takes its kind from the URL
TypedRequest(b) ==
    \/ createPodHandler(b, Now, TRUE)
    \/ createDeploymentHandler(b, Now, TRUE)
    \/ \E n \in ServiceNames : updateServiceHandler(n, b, Now, TRUE)

\* a request to an endpoint that switches on the kind of the manifest
DispatchedRequest(b) ==
    \/ createGenericWorkloadHandler(b, Now, TRUE)
    \/ \E n \in WorkloadNames : updateGenericWorkloadHandler(n, b, Now, TRUE)
    \/ applyManifestHandler(b, Now, TRUE)

StoreUntouched == UNCHANGED <<storeVars, files>>

\* C17: a request whose body does not decode is answered 400 by every
\* endpoint, and a request to the generic workload endpoints or to apply
\* whose manifest has no kind or a kind the endpoint does not support is
\* answered 400; such a request leaves every store map and every snapshot
\* file unchanged.
RejectsInvalid ==
    [][/\ (up /\ (TypedRequest(BadBody) \/ DispatchedRequest(BadBody)))
            => /\ StoreUntouched
               /\ createStatus(BadBody) = StatusBadRequest
               /\ updateStatus(BadBody) = StatusBadRequest
       /\ \A b \in InvalidBodies :
            (up /\ DispatchedRequest(b))
                => /\ StoreUntouched
                   /\ createGenericWorkloadStatus(b) = StatusBadRequest
                   /\ updateGenericWorkloadStatus(b) = StatusBadRequest
                   /\ applyManifestStatus(b) = StatusBadRequest]_vars

\* invalid manifests have been sent while resources were stored: the Pod of
\* kind Job can only come from the typed endpoint
RejectsInvalidWitness ==
    /\ up
    /\ "web" \in DOMAIN pods /\ pods["web"].kind = "Job"
    /\ "web" \in DOMAIN deployments /\ deployments["web"].kind = "Deployment"
    /\ "web" \in DOMAIN services
    /\ "web" \in DOMAIN files["services"]

\* C17 as stated for every endpoint: a manifest that does not decode, has no
\* kind or names an unsupported kind changes neither the store nor the files.
RejectsInvalidEverywhere ==
    [][\A b \in InvalidBodies :
          (up /\ (TypedRequest(b) \/ DispatchedRequest(b)))
              => StoreUntouched]_vars

(***************************************************************************)
(* SpecScale: workloads of the three kinds and a Service are created and   *)
(* deleted, Deployments and StatefulSets are scaled, the process restarts. *)
(***************************************************************************)
\* a second Deployment, which no request of this specification scales away
CreateDb ==
    up /\ createDeploymentHandler(
              Body(Manifest("Deployment", "db", Ptr(MaxReplicas), <<Nginx>>,
                            {}, "")), Now, TRUE)

NextScale ==
    \/ CreateDb \/ CreateWorkload \/ CreateService
    \/ ScaleDeployment \/ ScaleStatefulSet
    \/ DeleteWorkload
    \/ Restart

SpecScale == Init /\ [][NextScale]_vars

(***************************************************************************)
(* C18  Scale.                                                             *)
(***************************************************************************)
\* m2 is m with nothing but the replica count of the object n changed, to k
OnlyReplicasOf(m, m2, n, k) ==
    /\ DOMAIN m2 = DOMAIN m
    /\ \A o \in (DOMAIN m) \ {n} : m2[o] = m[o]
    /\ DOMAIN m2[n] = DOMAIN m[n]
    /\ \A f \in (DOMAIN m[n]) \ {"replicas"} : m2[n][f] = m[n][f]
    /\ m2[n].replicas = Ptr(k)

\* C18: a scale of an existing Deployment or StatefulSet to k sets the
\* replica count of that object to k and changes nothing else in the store:
\* its other fields, the other objects of its kind and the maps of the other
\* kinds stay as they were.
ScaleOnlyReplicas ==
    [][\A k \in ScaleInputs :
         /\ \A n \in DeploymentNames :
              (up /\ n \in DOMAIN deployments
                  /\ scaleDeploymentHandler(n, ScaleBody(k), k))
                  => /\ OnlyReplicasOf(deployments, deployments', n, k)
                     /\ UNCHANGED <<pods, statefulsets, services, nodes>>
         /\ \A n \in WorkloadNames :
              (up /\ n \in DOMAIN statefulsets
                  /\ scaleStatefulSetHandler(n, ScaleBody(k), k))
                  => /\ OnlyReplicasOf(statefulsets, statefulsets', n, k)
                     /\ UNCHANGED <<pods, deployments, services, nodes>>]_vars

\* a Deployment and a StatefulSet that only a scale can have left with these
\* replica counts, next to a second Deployment, a Pod and a Service
ScaleOnlyReplicasWitness ==
    /\ up
    /\ DOMAIN deployments = DeploymentNames
    /\ deployments["web"].replicas = Ptr(0)
    /\ deployments["web"].template = <<Nginx>>
    /\ deployments["db"].replicas = Ptr(MaxReplicas)
    /\ "web" \in DOMAIN statefulsets
    /\ statefulsets["web"].replicas = Ptr(MaxReplicas - 1)
    /\ "web" \in DOMAIN pods
    /\ "web" \in DOMAIN services

(***************************************************************************)
(* SpecLocks: the handlers and the three control loops statement by        *)
(* statement, with the store's sync.RWMutex.  pc maps every goroutine that  *)
(* is inside a handler or a tick to its position; mutex records who holds  *)
(* the lock.  A goroutine that is at a runtime statement has that call in  *)
(* flight, one that is at a snapshot statement is doing that file I/O.     *)
(***************************************************************************)
\* net/http serves every request on a goroutine of its own
Requests == {"req", "req2"}

Running(g) == g \in DOMAIN pc
Holds(g) == mutex.writer = g \/ g \in mutex.readers

\* sync.RWMutex: Lock waits for the writer and all readers to leave, RLock
\* for the writer
Lock(g) == mutex = Unlocked /\ mutex' = [mutex EXCEPT !.writer = g]
Unlock(g) == mutex.writer = g /\ mutex' = [mutex EXCEPT !.writer = ""]
RLock(g) == mutex.writer = "" /\ mutex' = [mutex EXCEPT !.readers = @ \cup {g}]
RUnlock(g) ==
    g \in mutex.readers /\ mutex' = [mutex EXCEPT !.readers = @ \ {g}]

Stmt(do, category) == [do |-> do, category |-> category]

\* the statements of the typed create handlers after decode and defaults
createHandlerStmts(category) ==
    <<Stmt("Lock", category), Stmt("Put", category), Stmt("Unlock", category),
      Stmt("Store", category), Stmt("Reply", category)>>

\* the statements of the typed delete handlers
deleteHandlerStmts(category) ==
    <<Stmt("Lock", category), Stmt("Delete", category),
      Stmt("Unlock", category), Stmt("Remove", category),
      Stmt("Reply", category)>>

\* the statements of the scale handlers after the decode
scaleHandlerStmts(category) ==
    <<Stmt("Lock", category), Stmt("Scale", category),
      Stmt("Unlock", category), Stmt("Reply", category)>>

\* deleteGenericWorkloadHandler: the unlock is deferred to the return
deleteGenericWorkloadHandlerStmts ==
    <<Stmt("Lock", ""),
      Stmt("DeleteIf", "deployments"), Stmt("Remove", "deployments"),
      Stmt("DeleteIf", "statefulsets"), Stmt("Remove", "statefulsets"),
      Stmt("DeleteIf", "pods"), Stmt("Remove", "pods"),
      Stmt("Reply", ""), Stmt("Unlock", "")>>

RequestOps ==
    {"createDeployment", "createStatefulSet", "createService",
     "deleteDeployment", "deleteGenericWorkload"}

\* the update handlers run the statements of the create handlers
HandlerStmts(op) ==
    CASE op = "createDeployment" -> createHandlerStmts("deployments")
      [] op = "updateDeployment" -> createHandlerStmts("deployments")
      [] op = "updateService" -> createHandlerStmts("services")
      [] op = "deleteService" -> deleteHandlerStmts("services")
      [] op = "scaleDeployment" -> scaleHandlerStmts("deployments")
      [] op = "createStatefulSet" -> createHandlerStmts("statefulsets")
      [] op = "createService" -> createHandlerStmts("services")
      [] op = "deleteDeployment" -> deleteHandlerStmts("deployments")
      [] op = "deleteGenericWorkload" -> deleteGenericWorkloadHandlerStmts

\* the one resource name of this specification; the container ids built from
\* it are longer than the id prefix the workload controller logs
LockedName == "frontend"

\* the object a create request of this specification stores, all named frontend
RequestObject(category) ==
    CASE category = "deployments" ->
             setDefaultsForDeployment(
                 AsDeployment(Manifest("Deployment", LockedName, Nil, <<Nginx>>,
                                       {}, "")), Now)
      [] category = "statefulsets" ->
             setDefaultsForStatefulSet(
                 AsStatefulSet(Manifest("StatefulSet", LockedName, Nil,
                                        <<Postgres>>, {}, "")), Now)
      [] category = "services" ->
             setDefaultsForService(
                 AsService(Manifest("Service", LockedName, Nil, << >>, {},
                                    ServiceTypeNodePort)), Now)

\* the object a request stores: an update carries two replicas, or turns
\* the Service into a ClusterIP one
RequestObjectOf(op, category) ==
    CASE op = "updateDeployment" ->
             setDefaultsForDeployment(
                 AsDeployment(Manifest("Deployment", LockedName, Ptr(2),
                                       <<Nginx>>, {}, "")), Now)
      [] op = "updateService" ->
             setDefaultsForService(
                 AsService(Manifest("Service", LockedName, Nil, << >>, {},
                                    "ClusterIP")), Now)
      [] OTHER -> RequestObject(category)

\* the statement a request goroutine is at
StmtOf(g) == HandlerStmts(pc[g].op)[pc[g].i]
AtStmt(g, dos) == Running(g) /\ StmtOf(g).do \in dos

\* the goroutine moves k statements on; past the last one the handler returns
Advanced(g, k) ==
    IF pc[g].i + k > Len(HandlerStmts(pc[g].op))
    THEN MapDelete(pc, g)
    ELSE [pc EXCEPT ![g].i = @ + k]
Advance(g, k) == pc' = Advanced(g, k)

coarseVars ==
    <<ticks, lastTickOps, restarted, acked, submitted, ioFailed, lastTargets,
      lastInfo, outage>>

\* the server starts the handler of a request on goroutine g
Serve(g, op) ==
    /\ up /\ ~Running(g)
    /\ pc' = MapPut(pc, g, [op |-> op, i |-> 1])
    /\ UNCHANGED <<storeVars, files, containers, up, coarseVars, run, mutex>>

\* one request at a time
RequestBegin == \E op \in RequestOps : Serve("req", op)

RequestLock ==
    \E g \in Requests :
        /\ up /\ AtStmt(g, {"Lock"})
        /\ Lock(g)
        /\ Advance(g, 1)
        /\ UNCHANGED <<storeVars, files, containers, up, coarseVars, run>>

RequestUnlock ==
    \E g \in Requests :
        /\ up /\ AtStmt(g, {"Unlock"})
        /\ Unlock(g)
        /\ Advance(g, 1)
        /\ UNCHANGED <<storeVars, files, containers, up, coarseVars, run>>

\* the workload loop is between two iterations of its range over the map of
\* this category, and the name is not among the entries the range has left
InRange(category, name) ==
    /\ Running("workload")
    /\ pc["workload"].at \in {"reconcile", "relock"}
    /\ pc["workload"].phase = category
    /\ \A i \in 1 .. Len(pc["workload"].todo) : pc["workload"].todo[i] # name

\* s.<kind>[name] = obj, delete(s.<kind>, name); after a DeleteIf that finds
\* nothing the removal of the file is skipped.  An entry created in a map
\* while the workload loop ranges over it may be produced by that range or
\* may be skipped
RequestMapWrite ==
    \E g \in Requests :
        /\ up /\ AtStmt(g, {"Put", "Delete", "DeleteIf"})
        /\ LET c == StmtOf(g).category
               m == StoreOf(c)
               m2 == IF StmtOf(g).do = "Put"
                     THEN MapPut(m, LockedName, RequestObjectOf(pc[g].op, c))
                     ELSE MapDelete(m, LockedName)
               next == Advanced(g, IF StmtOf(g).do = "DeleteIf"
                                      /\ LockedName \notin DOMAIN m
                                   THEN 2 ELSE 1)
               created == /\ StmtOf(g).do = "Put" /\ LockedName \notin DOMAIN m
                          /\ InRange(c, LockedName)
           IN  /\ pods' = IF c = "pods" THEN m2 ELSE pods
               /\ deployments' = IF c = "deployments" THEN m2 ELSE deployments
               /\ statefulsets' = IF c = "statefulsets" THEN m2 ELSE statefulsets
               /\ services' = IF c = "services" THEN m2 ELSE services
               /\ \E produced \in {FALSE, created} :
                      pc' = IF produced
                            THEN [next EXCEPT !["workload"].todo =
                                                  Append(@, LockedName)]
                            ELSE next
        /\ UNCHANGED <<nodes, files, containers, up, coarseVars, run, mutex>>

\* s.storage.Store<Kind>, s.storage.Delete<Kind>
RequestSnapshotIO ==
    \E g \in Requests :
        /\ up /\ AtStmt(g, {"Store", "Remove"})
        /\ LET c == StmtOf(g).category IN
           files' = IF StmtOf(g).do = "Store"
                    THEN storeObject(files, c, LockedName,
                                     RequestObjectOf(pc[g].op, c), TRUE)
                    ELSE deleteObject(files, c, LockedName, TRUE)
        /\ Advance(g, 1)
        /\ UNCHANGED <<storeVars, containers, up, coarseVars, run, mutex>>

RequestReply ==
    \E g \in Requests :
        /\ up /\ AtStmt(g, {"Reply"})
        /\ Advance(g, 1)
        /\ UNCHANGED <<storeVars, files, containers, up, coarseVars, run, mutex>>

\* the labels of the loops' statements
RLockLabels == {"rlock", "relock"}
RUnlockLabels == {"runlock", "end_runlock"}
RuntimeLabels == {"reconcile", "find", "info"}

At(g, labels) == Running(g) /\ pc[g].at \in labels

\* a workload loop that keeps the read lock during reconcileDeployment and
\* reconcileStatefulSet
LoopNextHoldingLock(g, at) ==
    CASE g = "workload" ->
             (CASE at = "rlock" -> "range"
                [] at = "range" -> "reconcile"
                [] at = "runlock" -> "reconcile"
                [] at = "reconcile" -> "range"
                [] at = "relock" -> "range"
                [] at = "end_runlock" -> "done")
      [] g = "service" ->
             (CASE at = "rlock" -> "runlock"
                [] at = "runlock" -> "next"
                [] at = "next" -> "find"
                [] at = "find" -> "lock"
                [] at = "lock" -> "status"
                [] at = "status" -> "unlock"
                [] at = "unlock" -> "next")
      [] g = "node" ->
             (CASE at = "info" -> "lock"
                [] at = "lock" -> "put"
                [] at = "put" -> "unlock"
                [] at = "unlock" -> "done")

\* the statement that follows the one at a label, where that does not depend
\* on the data; "range" and "next" stand for the for statements, which take
\* no step of their own
LoopNext(g, at) ==
    CASE g = "workload" ->
             (CASE at = "rlock" -> "range"
                [] at = "range" -> "runlock"
                [] at = "runlock" -> "reconcile"
                [] at = "reconcile" -> "relock"
                [] at = "relock" -> "range"
                [] at = "end_runlock" -> "done")
      [] g = "service" ->
             (CASE at = "rlock" -> "runlock"
                [] at = "runlock" -> "next"
                [] at = "next" -> "find"
                [] at = "find" -> "lock"
                [] at = "lock" -> "status"
                [] at = "status" -> "unlock"
                [] at = "unlock" -> "next")
      [] g = "node" ->
             (CASE at = "info" -> "lock"
                [] at = "lock" -> "put"
                [] at = "put" -> "unlock"
                [] at = "unlock" -> "done")

\* for _, deployment := range c.server.deployments, then the statefulsets:
\* the next key that is still in the map becomes the loop variable; after
\* the last statefulset the function unlocks and returns
RECURSIVE WorkloadRange(_)
WorkloadRange(p) ==
    LET m == StoreOf(p.phase)
        present(n) == n \in DOMAIN m
        live == SelectSeq(p.todo, present)
    IN  IF live # << >>
        THEN [p EXCEPT !.at = LoopNext("workload", "range"),
                       !.cur = m[Head(live)], !.todo = Tail(live)]
        ELSE IF p.phase = "deployments"
        THEN WorkloadRange([p EXCEPT !.phase = "statefulsets",
                                     !.todo = RangeOrder(DOMAIN statefulsets,
                                                         "asc")])
        ELSE [p EXCEPT !.at = "end_runlock"]

\* for _, service := range services, over the copied slice
ServiceNext(p) ==
    IF p.todo = << >> THEN [p EXCEPT !.at = "done"]
    ELSE [p EXCEPT !.at = LoopNext("service", "next"),
                   !.cur = Head(p.todo), !.todo = Tail(p.todo)]

\* the goroutine goes on with the statement after the one it is at
After(g, p) ==
    LET l == LoopNext(g, p.at)
        q == IF l = "range" THEN WorkloadRange(p)
             ELSE IF l = "next" THEN ServiceNext(p)
             ELSE [p EXCEPT !.at = l]
    IN  IF q.at = "done" THEN MapDelete(pc, g) ELSE [pc EXCEPT ![g] = q]
Continue(g) == pc' = After(g, pc[g])

\* a ticker fires: the goroutine enters reconcileWorkloads, reconcileServices
\* or updateNodeStatus
LoopBegin ==
    \E g \in Loops :
        /\ up /\ ~Running(g)
        /\ pc' = MapPut(pc, g,
                    [at |-> IF g = "node" THEN "info" ELSE "rlock",
                     phase |-> "deployments", todo |-> << >>, cur |-> << >>])
        /\ UNCHANGED <<storeVars, files, containers, up, coarseVars, run, mutex>>

\* RLock; the first one is followed by the statements that read the map:
\* the start of the range over the deployments, the copy of the services
LoopRLock ==
    \E g \in Loops :
        /\ up /\ At(g, RLockLabels)
        /\ RLock(g)
        /\ pc' = IF pc[g].at = "relock" THEN After(g, pc[g])
                 ELSE IF g = "workload"
                 THEN After(g, [pc[g] EXCEPT
                                   !.todo = RangeOrder(DOMAIN deployments,
                                                       "asc")])
                 ELSE After(g, [pc[g] EXCEPT
                                   !.todo =
                                       LET names == RangeOrder(DOMAIN services,
                                                               "asc")
                                       IN  [i \in 1 .. Len(names) |->
                                               services[names[i]]]])
        /\ UNCHANGED <<storeVars, files, containers, up, coarseVars, run>>

LoopRUnlock ==
    \E g \in Loops :
        /\ up /\ At(g, RUnlockLabels)
        /\ RUnlock(g)
        /\ Continue(g)
        /\ UNCHANGED <<storeVars, files, containers, up, coarseVars, run>>

LoopLock ==
    \E g \in Loops :
        /\ up /\ At(g, {"lock"})
        /\ Lock(g)
        /\ Continue(g)
        /\ UNCHANGED <<storeVars, files, containers, up, coarseVars, run>>

LoopUnlock ==
    \E g \in Loops :
        /\ up /\ At(g, {"unlock"})
        /\ Unlock(g)
        /\ Continue(g)
        /\ UNCHANGED <<storeVars, files, containers, up, coarseVars, run>>

\* reconcileDeployment or reconcileStatefulSet of the object taken in range
WorkloadReconcile ==
    LET g == "workload" IN
    /\ up /\ At(g, {"reconcile"})
    /\ \E F \in LoopFaultSets :
         LET rt0 == [cs |-> containers, ops |-> FALSE, panic |-> FALSE,
                     err |-> FALSE, log |-> << >>]
             rt == IF pc[g].phase = "deployments"
                   THEN reconcileDeployment(rt0, pc[g].cur, F, "asc")
                   ELSE reconcileStatefulSet(rt0, pc[g].cur, F, "asc")
         IN  /\ containers' = rt.cs
             /\ IF rt.panic
                THEN /\ ProcessDies
                     /\ mutex' = Unlocked
                     /\ pc' = NoGoroutines
                ELSE /\ Continue(g)
                     /\ UNCHANGED <<storeVars, up, ticks, acked, lastTargets,
                                    lastInfo, mutex>>
    /\ UNCHANGED <<files, lastTickOps, restarted, submitted, ioFailed, outage,
                   run>>

\* findTargetContainers: ListContainers; on an error reconcileService returns
\* and the range goes on with the next service
ServiceFind ==
    LET g == "service" IN
    /\ up /\ At(g, {"find"})
    /\ \E F \in LoopFaultSets :
         IF findTargetContainers(containers, pc[g].cur.selector, F, "asc").err
         THEN pc' = After(g, [pc[g] EXCEPT !.at = "unlock"])
         ELSE Continue(g)
    /\ UNCHANGED <<storeVars, files, containers, up, coarseVars, run, mutex>>

\* the body of updateServiceStatus, under the exclusive lock
ServiceStatus ==
    LET g == "service" IN
    /\ up /\ At(g, {"status"})
    /\ services' = updateServiceStatus(services, pc[g].cur)
    /\ Continue(g)
    /\ UNCHANGED <<pods, deployments, statefulsets, nodes, files, containers,
                   up, coarseVars, run, mutex>>

\* GetSystemInfo; on an error updateNodeStatus returns
NodeInfo ==
    LET g == "node" IN
    /\ up /\ At(g, {"info"})
    /\ \E info \in SystemInfos :
         pc' = IF info.err THEN MapDelete(pc, g)
               ELSE After(g, [pc[g] EXCEPT !.cur = info])
    /\ UNCHANGED <<storeVars, files, containers, up, coarseVars, run, mutex>>

\* s.nodes["local-node"] = node
NodePut ==
    LET g == "node" IN
    /\ up /\ At(g, {"put"})
    /\ nodes' = MapPut(nodes, LocalNodeName, NodeFrom(pc[g].cur, Now))
    /\ Continue(g)
    /\ UNCHANGED <<pods, deployments, statefulsets, services, files,
                   containers, up, coarseVars, run, mutex>>

NextLocks ==
    \/ RequestBegin \/ RequestLock \/ RequestUnlock
    \/ RequestMapWrite \/ RequestSnapshotIO \/ RequestReply
    \/ LoopBegin \/ LoopRLock \/ LoopRUnlock \/ LoopLock \/ LoopUnlock
    \/ WorkloadReconcile
    \/ ServiceFind \/ ServiceStatus
    \/ NodeInfo \/ NodePut

SpecLocks == Init /\ [][NextLocks]_vars

(***************************************************************************)
(* C19  No snapshot I/O under the exclusive lock.                          *)
(***************************************************************************)
\* C19: no request goroutine holds the store's exclusive lock while it is
\* writing or removing a snapshot file.
NoSnapshotIOUnderLock ==
    \A g \in Requests :
        AtStmt(g, {"Store", "Remove"}) => mutex.writer # g

(***************************************************************************)
(* C20  No runtime call under the store lock.                              *)
(***************************************************************************)
\* C20: a control loop that has a runtime call in flight holds the store
\* lock neither in shared nor in exclusive mode.
NoRuntimeCallUnderLock ==
    \A g \in Loops : At(g, RuntimeLabels) => ~Holds(g)

\* the workload loop is inside reconcileDeployment, between two iterations
\* of its range, while a request holds the exclusive lock
NoRuntimeCallUnderLockWitness ==
    /\ up
    /\ At("workload", {"reconcile"})
    /\ pc["workload"].phase = "deployments"
    /\ mutex.writer \in Requests
    /\ At("service", {"find"})

(***************************************************************************)
(* SpecLoad: process start on a data directory that earlier runs of the    *)
(* program have written.  A run can be killed, also in the middle of a     *)
(* snapshot write; a kind directory can be unreadable when the next run    *)
(* starts (ioutil.ReadDir fails).                                          *)
(***************************************************************************)
\* the kinds loadState reads, in the order it reads them
LoadedCategories == <<"pods", "deployments", "statefulsets", "services">>

\* metadata.name values of the requests; the snapshot file of name n is
\* n + ".json", so these are web.json, .json and .web.json
LoadNames == {"web", "", ".web"}
\* the file name of the snapshot of n begins with '.'
BeginsWithDot(n) == n \in {"", ".web"}

LoadBodies ==
    {Body(Manifest("Deployment", n, Nil, <<Nginx>>, {}, "")) : n \in LoadNames}
LoadServiceBodies ==
    {Body(Manifest("Service", n, Nil, << >>, {<<"app", Str("web")>>}, "ClusterIP")) :
        n \in {"web", ""}}

\* loadState as a function: the first kind whose directory cannot be read
\* ends it with an error
loadStateResult(fs, unreadable) ==
    [err |-> \E i \in DOMAIN LoadedCategories : LoadedCategories[i] \in unreadable,
     pods |-> LoadCategory(fs, "pods"),
     deployments |-> LoadCategory(fs, "deployments"),
     statefulsets |-> LoadCategory(fs, "statefulsets"),
     services |-> LoadCategory(fs, "services")]

\* the main goroutine: not started, stopped by log.Fatalf, or serving
MainAt(at) == [main |-> [at |-> at]]

\* runServer up to the start of the listener and of the control loops:
\* NewServer fails when loadState fails, and runServer then calls log.Fatalf
runServer(unreadable) ==
    LET r == loadStateResult(files, unreadable) IN
    /\ IF r.err
       THEN /\ pc' = MainAt("fatal")
            /\ UNCHANGED <<storeVars, up>>
       ELSE /\ pc' = MainAt("serving")
            /\ pods' = r.pods
            /\ deployments' = r.deployments
            /\ statefulsets' = r.statefulsets
            /\ services' = r.services
            /\ nodes' = EmptyMap
            /\ up' = TRUE
    /\ restarted' = TRUE
    /\ UNCHANGED <<files, containers, ticks, lastTickOps, acked, submitted,
                   ioFailed, lastTargets, lastInfo, outage, mutex>>
    /\ run' = StartControllers

\* the data directories that cannot be read at a start
UnreadableSets == {{}, {"deployments"}, {"services"}}

StartServer == ~up /\ \E unreadable \in UnreadableSets : runServer(unreadable)

\* SIGKILL: the memory of the process is gone, the data directory stays
KillServer ==
    /\ up
    /\ ProcessDies
    /\ pc' = NoGoroutines
    /\ UNCHANGED <<files, containers, lastTickOps, restarted, submitted,
                   ioFailed, outage, mutex, run>>

\* the process is killed while storeObject rewrites the snapshot of a
\* deployment it holds
KillInWrite ==
    /\ up
    /\ \E n \in DOMAIN deployments :
           files' = [files EXCEPT !["deployments"] = MapPut(@, n, TruncatedDocument)]
    /\ ProcessDies
    /\ pc' = NoGoroutines
    /\ UNCHANGED <<containers, lastTickOps, restarted, submitted, ioFailed,
                   outage, mutex, run>>

CreateLoadDeployment ==
    up /\ \E b \in LoadBodies : createDeploymentHandler(b, Now, TRUE)
CreateLoadService ==
    up /\ \E b \in LoadServiceBodies : createServiceHandler(b, Now, TRUE)
DeleteLoadDeployment ==
    up /\ \E n \in LoadNames : deleteDeploymentHandler(n, TRUE)

\* the machine before the first start: an empty data directory
InitLoad ==
    /\ pods = EmptyMap
    /\ deployments = EmptyMap
    /\ statefulsets = EmptyMap
    /\ services = EmptyMap
    /\ nodes = EmptyMap
    /\ files = NewFileStorage
    /\ containers = EmptyBag
    /\ up = FALSE
    /\ ticks = 0
    /\ lastTickOps = FALSE
    /\ restarted = FALSE
    /\ acked = EmptyMap
    /\ submitted = EmptyMap
    /\ ioFailed = FALSE
    /\ lastTargets = EmptyMap
    /\ lastInfo = "none"
    /\ outage = FALSE
    /\ mutex = Unlocked
    /\ pc = NoGoroutines
    /\ run = StartControllers

NextLoad ==
    \/ StartServer \/ KillServer \/ KillInWrite
    \/ CreateLoadDeployment \/ CreateLoadService \/ DeleteLoadDeployment

SpecLoad == InitLoad /\ [][NextLoad]_vars

(***************************************************************************)
(* C21  Load on startup is never fatal.                                    *)
(***************************************************************************)
\* C21: no start of the process ends in a fatal exit: whatever kind
\* directories cannot be read and whatever files do not parse, the main
\* goroutine never stops in log.Fatalf.
LoadNeverFatal == "main" \in DOMAIN pc => pc["main"].at # "fatal"

(***************************************************************************)
(* C22  Files whose name begins with '.' are not loaded.                   *)
(***************************************************************************)
\* C22: a start of the process loads no object from a snapshot file whose
\* name begins with '.': after the start no key of a loaded map is the name
\* of an object held by such a file.
DotFilesNotLoaded ==
    [][(~up /\ up') =>
         \A i \in DOMAIN LoadedCategories :
             \A f \in DOMAIN files[LoadedCategories[i]] :
                 (BeginsWithDot(f) /\ Parses(files[LoadedCategories[i]][f]))
                 => getObject(files, LoadedCategories[i], f).name
                       \notin DOMAIN StoreOf(LoadedCategories[i])']_vars

(***************************************************************************)
(* SpecReplicas: the workload controller over a Deployment "frontend"      *)
(* whose template has two containers and a StatefulSet "db", with scale    *)
(* calls, a runtime in which one call, or two calls on the same            *)
(* container, can fail in a tick, and both orders of listing and ranging.  *)
(***************************************************************************)
PairTemplate == <<Nginx, Postgres>>

SubmitPair ==
    up /\ createDeploymentHandler(
              Body(Manifest("Deployment", "frontend", Ptr(MaxReplicas),
                            PairTemplate, {}, "")),
              Now, TRUE)
ScalePair ==
    up /\ \E k \in {1, MaxReplicas} :
              scaleDeploymentHandler("frontend", ScaleBody(k), k)
SubmitSet ==
    up /\ createStatefulSetHandler(
              Body(Manifest("StatefulSet", "db", Ptr(2), <<Postgres>>, {}, "")),
              Now, TRUE)
ScaleSet ==
    up /\ \E k \in {1, 2} : scaleStatefulSetHandler("db", ScaleBody(k), k)

\* the calls that can fail alone
ReplicaFaults ==
    FaultsOf("frontend", Nginx, MaxReplicas, {"pull", "image", "create", "start"})
    \cup FaultsOf("frontend", Postgres, MaxReplicas, {"create", "start"})
    \cup FaultsOf("db", Postgres, 2, {"create", "start"})

\* the image is neither in the registry nor in the local store; the start
\* fails and so does the removal that follows it
ReplicaFaultPairs ==
    {{<<"pull", ContainerName(PodName("frontend", 0), Nginx)>>,
      <<"image", ContainerName(PodName("frontend", 0), Nginx)>>},
     {<<"start", ContainerName(PodName("frontend", 0), Postgres)>>,
      <<"remove", ContainerName(PodName("frontend", 0), Postgres)>>}}

ReplicaFaultSets == FaultSets(ReplicaFaults) \cup ReplicaFaultPairs

ReplicaTick ==
    up /\ \E F \in ReplicaFaultSets, order \in ListOrders :
              reconcileWorkloads(F, order)

NextReplicas ==
    \/ SubmitPair \/ ScalePair \/ SubmitSet \/ ScaleSet
    \/ ReplicaTick

SpecReplicas == Init /\ [][NextReplicas]_vars

\* the stored deployments and statefulsets with the number of containers the
\* runtime lists for each
ListedWorkloads ==
    {[workload |-> deployments[n], listed |-> Len(ListedForDeployment(n))] :
        n \in DOMAIN deployments}
    \cup {[workload |-> statefulsets[n], listed |-> Len(ListedForStatefulSet(n))] :
             n \in DOMAIN statefulsets}

\* the call is in the log
Issued(log, call) == \E k \in DOMAIN log : log[k] = call

\* the id of container j of the template of replica i of workload w
ReplicaId(w, i, j) == ContainerName(PodName(w.name, i), w.template[j])

(***************************************************************************)
(* C23  Failure isolation within a tick.                                   *)
(***************************************************************************)
\* C23: whatever runtime call fails in a tick, the tick does not end the
\* loop, it lists the containers of every stored workload, and for every
\* workload whose listing succeeds it starts the creation of every replica
\* the workload still needs, those after a failed replica included.
FailureIsolation ==
    up => \A F \in ReplicaFaultSets, order \in ListOrders :
              LET r == reconcileWorkloadsResult(F, order) IN
              /\ ~r.panic
              /\ \A lw \in ListedWorkloads :
                     /\ Issued(r.log, Call("list", Str(lw.workload.name), 0))
                     /\ ~Fails("list", Str(lw.workload.name), F)
                            => \A i \in lw.listed .. Desired(lw.workload) - 1 :
                                   Issued(r.log,
                                          Call("pull", ReplicaId(lw.workload, i, 1), 0))

\* a tick has failed on replica 0 of frontend and has created replica 1 and
\* the pods of db after it
FailureIsolationWitness ==
    /\ up
    /\ ticks = 0 /\ lastTickOps
    /\ "frontend" \in DOMAIN deployments /\ "db" \in DOMAIN statefulsets
    /\ ~IdInUse(containers, ContainerName(PodName("frontend", 0), Nginx))
    /\ IdInUse(containers, ContainerName(PodName("frontend", 1), Nginx))
    /\ IdInUse(containers, ContainerName(PodName("db", 0), Postgres))
    /\ IdInUse(containers, ContainerName(PodName("db", 1), Postgres))

(***************************************************************************)
(* C24  Pod naming on scale-up.                                            *)
(***************************************************************************)
\* the ordinals i for which a pod <name>-<i> of w has a container in cs
SlotsIn(cs, w) ==
    {i \in 0 .. MaxReplicas :
        \E c \in DOMAIN cs :
            LabelGet(c.labels, "synthesis.pod") = PodName(w.name, i)}
UsedSlots(w) == SlotsIn(containers, w)
\* the ordinals of the pods a tick asked the runtime to create for w
NewSlots(w, log) ==
    {i \in 0 .. MaxReplicas : Issued(log, Call("create", ReplicaId(w, i, 1), 0))}

\* C24: the pods a tick without a failing call creates for a workload are
\* named by the lowest ordinals of [0, desired) that no existing pod of the
\* workload uses, whatever the set of used ordinals.
LowestUnusedSlots ==
    up => \A order \in ListOrders :
              LET r == reconcileWorkloadsResult({}, order) IN
              \A lw \in ListedWorkloads :
                  LET free == (0 .. Desired(lw.workload) - 1) \ UsedSlots(lw.workload)
                      new == NewSlots(lw.workload, r.log)
                  IN  /\ new \subseteq free
                      /\ \A i \in new, j \in free \ new : i < j

(***************************************************************************)
(* C25  StatefulSet scale-down removes the highest ordinals.               *)
(***************************************************************************)
\* C25: a tick without a failing call on a StatefulSet that has more pods
\* than its replica count leaves exactly the pods 0 .. desired-1, whatever
\* order the runtime lists the containers in.
HighestOrdinalsRemoved ==
    up => \A order \in ListOrders :
              LET r == reconcileWorkloadsResult({}, order) IN
              \A n \in DOMAIN statefulsets :
                  Cardinality(UsedSlots(statefulsets[n])) > Desired(statefulsets[n])
                      => SlotsIn(r.cs, statefulsets[n])
                            = 0 .. Desired(statefulsets[n]) - 1

(***************************************************************************)
(* C26  Scale-down issues stop and then remove.                            *)
(***************************************************************************)
\* the positions of the log where StopContainer(id, StopTimeout) of a
\* container of a pod of w is followed at once by RemoveContainer(id)
StopThenRemove(w, log) ==
    {k \in DOMAIN log :
        /\ log[k].call = "stop" /\ log[k].timeout = StopTimeout
        /\ \E c \in DOMAIN containers :
               /\ c.id = log[k].arg
               /\ \E i \in 0 .. MaxReplicas :
                      LabelGet(c.labels, "synthesis.pod") = PodName(w.name, i)
        /\ k + 1 \in DOMAIN log
        /\ log[k + 1] = Call("remove", log[k].arg, 0)}

\* C26: a tick without a failing call on a workload with one container per
\* pod that has more containers than its replica count issues, for as many
\* containers as are in excess, StopContainer(id, 30) followed by
\* RemoveContainer(id).
ScaleDownStopsThenRemoves ==
    up => \A order \in ListOrders :
              LET r == reconcileWorkloadsResult({}, order) IN
              \A lw \in ListedWorkloads :
                  (/\ Len(lw.workload.template) = 1
                   /\ ContainersOf(lw.workload.name) > Desired(lw.workload))
                      => Cardinality(StopThenRemove(lw.workload, r.log))
                            = ContainersOf(lw.workload.name) - Desired(lw.workload)

(***************************************************************************)
(* C27  A failed replica leaves no container behind.                       *)
(***************************************************************************)
\* the containers of cs that belong to the pod
OfPod(cs, podName) ==
    {c \in DOMAIN cs : LabelGet(c.labels, "synthesis.pod") = podName}

\* C27: when createPodFromTemplate, called for the first replica a workload
\* needs, returns an error, the runtime holds no container of that pod that
\* it did not hold before the call.
FailedReplicaIsAbsent ==
    up => \A F \in ReplicaFaultSets :
              \A lw \in ListedWorkloads :
                  lw.listed < Desired(lw.workload) =>
                      LET podName == PodName(lw.workload.name, lw.listed)
                          r == createPodFromTemplate(
                                   [cs |-> containers, ops |-> FALSE,
                                    panic |-> FALSE, err |-> FALSE, log |-> << >>],
                                   lw.workload.name, lw.workload.template,
                                   lw.listed, F)
                      IN  r.err =>
                              \A c \in OfPod(r.cs, podName) :
                                  /\ c \in DOMAIN containers
                                  /\ r.cs[c] <= containers[c]

(***************************************************************************)
(* C28  A failed image pull does not end the replica.                      *)
(***************************************************************************)
\* the log holds the calls of seq one after the other, right after
\* position k
FollowedBy(log, k, seq) ==
    \A d \in DOMAIN seq : k + d \in DOMAIN log /\ log[k + d] = seq[d]

\* the positions of the log at which a PullImage that fails under F is issued
FailedPulls(log, F) ==
    {k \in DOMAIN log : log[k].call = "pull" /\ Fails("pull", log[k].arg, F)}

\* CreateContainer of the tick returns an error for this id: the image is
\* neither stored nor pulled, NewContainer fails or the id exists, or
\* InspectContainer fails
CreateFailsFor(id, F) ==
    \/ Fails("image", id, F) \/ Fails("create", id, F)
    \/ Fails("inspect", id, F)
    \/ IdInUse(containers, id)

\* C28: whenever the PullImage of a template container fails, the tick goes
\* on to CreateContainer for that container; StartContainer follows when
\* CreateContainer returns the container, and is not issued when it returns
\* an error.
PullFailureTolerated ==
    up => \A F \in ReplicaFaultSets, order \in ListOrders :
              LET r == reconcileWorkloadsResult(F, order) IN
              \A k \in FailedPulls(r.log, F) :
                  LET id == r.log[k].arg IN
                  /\ FollowedBy(r.log, k, <<Call("create", id, 0)>>)
                  /\ IF CreateFailsFor(id, F)
                     THEN ~Issued(r.log, Call("start", id, 0))
                     ELSE FollowedBy(r.log, k, <<Call("create", id, 0),
                                                 Call("start", id, 0)>>)

\* frontend is stored, its pod 0 does not exist, and a tick in which the
\* pull for frontend-0-nginx fails creates and starts that container
PullFailureToleratedWitness ==
    /\ up
    /\ "frontend" \in DOMAIN deployments
    /\ LET id == ContainerName(PodName("frontend", 0), Nginx)
           F == {<<"pull", id>>}
           r == reconcileWorkloadsResult(F, "asc")
       IN  /\ F \in ReplicaFaultSets
           /\ ~IdInUse(containers, id)
           /\ FailedPulls(r.log, F) # {}
           /\ \E c \in WithId(r.cs, id) : c.status = ContainerStatusRunning

\* C28 as stated: whenever the PullImage of a template container fails, the
\* tick issues CreateContainer and then StartContainer for that container.
PullFailureNeverAborts ==
    up => \A F \in ReplicaFaultSets, order \in ListOrders :
              LET r == reconcileWorkloadsResult(F, order) IN
              \A k \in FailedPulls(r.log, F) :
                  FollowedBy(r.log, k, <<Call("create", r.log[k].arg, 0),
                                         Call("start", r.log[k].arg, 0)>>)

(***************************************************************************)
(* SpecTicker: the Run goroutines of the three control loops, each with    *)
(* its ticker and the context of runServer, over a store that holds the    *)
(* Deployment "frontend", scaled to 0, and the Service "web".  The ticks   *)
(* run statement by statement as in SpecLocks.  A time.Ticker buffers one  *)
(* event and drops the events that arrive while one is buffered.           *)
(***************************************************************************)
\* the objects the process loaded at its start
TickerDeployment ==
    setDefaultsForDeployment(
        AsDeployment(Manifest("Deployment", "frontend", Ptr(0), <<Nginx>>, {},
                              "")),
        Now)
TickerService ==
    setDefaultsForService(
        AsService(Manifest("Service", "web", Nil, << >>,
                           {<<"synthesis.container", Str("nginx")>>},
                           "ClusterIP")),
        Now)
TickerFiles ==
    storeObject(
        storeObject(NewFileStorage, "deployments", "frontend",
                    TickerDeployment, TRUE),
        "services", "web", TickerService, TRUE)

InitTicker ==
    /\ files = TickerFiles
    /\ pods = LoadCategory(files, "pods")
    /\ deployments = LoadCategory(files, "deployments")
    /\ statefulsets = LoadCategory(files, "statefulsets")
    /\ services = LoadCategory(files, "services")
    /\ nodes = EmptyMap
    /\ containers = EmptyBag
    /\ up = TRUE
    /\ ticks = 0
    /\ lastTickOps = FALSE
    /\ restarted = TRUE
    /\ acked = EmptyMap
    /\ submitted = EmptyMap
    /\ ioFailed = FALSE
    /\ lastTargets = EmptyMap
    /\ lastInfo = "none"
    /\ outage = FALSE
    /\ mutex = Unlocked
    /\ pc = NoGoroutines
    /\ run = StartControllers

\* the ticker of loop g delivers an event; it is lost if one is buffered
TickerFires ==
    \E g \in Loops :
        /\ up /\ run.loop[g].at # "returned"
        /\ run' = [run EXCEPT !.loop[g].ticker = 1]
        /\ UNCHANGED <<storeVars, files, containers, up, coarseVars, mutex, pc>>

\* a loop that takes a ticker event wherever its goroutine is
ReceivesAnywhere(g) == run.loop[g].at # "returned"

\* the goroutine of loop g is blocked in the select of Run
Receives(g) == run.loop[g].at = "select"

\* case <-ticker.C: the goroutine calls reconcileWorkloads, reconcileServices
\* or updateNodeStatus
LoopTick ==
    \E g \in Loops :
        /\ up /\ Receives(g) /\ run.loop[g].ticker = 1
        /\ run' = [run EXCEPT !.loop[g] = [at |-> "tick", inTick |-> @.inTick + 1,
                                           ticker |-> 0]]
        /\ pc' = MapPut(pc, g,
                    [at |-> IF g = "node" THEN "info" ELSE "rlock",
                     phase |-> "deployments", todo |-> << >>, cur |-> << >>])
        /\ UNCHANGED <<storeVars, files, containers, up, coarseVars, mutex>>

\* the call returns and the goroutine is back in the select
LoopTickReturns ==
    \E g \in Loops :
        /\ up /\ run.loop[g].at = "tick" /\ ~Running(g)
        /\ run' = [run EXCEPT !.loop[g].at = "select",
                              !.loop[g].inTick = @ - 1]
        /\ UNCHANGED <<storeVars, files, containers, up, coarseVars, mutex, pc>>

\* a context whose Done channel is never closed
CtxNeverDone == FALSE

\* <-ctx.Done() can proceed: cancel() has closed the channel
CtxDone == run.cancelled

\* case <-ctx.Done(): return (the deferred ticker.Stop ends the ticker)
LoopReturns ==
    \E g \in Loops :
        /\ up /\ run.loop[g].at = "select" /\ CtxDone
        /\ run' = [run EXCEPT !.loop[g].at = "returned"]
        /\ UNCHANGED <<storeVars, files, containers, up, coarseVars, mutex, pc>>

\* runServer after the signal: cancel()
Cancel ==
    /\ up /\ ~run.cancelled
    /\ run' = [run EXCEPT !.cancelled = TRUE]
    /\ UNCHANGED <<storeVars, files, containers, up, coarseVars, mutex, pc>>

NextTicker ==
    \/ TickerFires \/ LoopTick \/ LoopTickReturns \/ LoopReturns \/ Cancel
    \/ LoopRLock \/ LoopRUnlock \/ LoopLock \/ LoopUnlock
    \/ WorkloadReconcile
    \/ ServiceFind \/ ServiceStatus
    \/ NodeInfo \/ NodePut

SpecTicker == InitTicker /\ [][NextTicker]_vars

(***************************************************************************)
(* C29  At most one tick of a loop is in progress.                         *)
(***************************************************************************)
\* C29: no control loop has more than one tick begun and not finished, and
\* a loop that is inside a tick is not in its select.
OneTickAtATime ==
    \A g \in Loops :
        /\ run.loop[g].inTick <= 1
        /\ Running(g) => run.loop[g].at = "tick" /\ run.loop[g].inTick = 1

\* the ticker of the workload loop has fired while the loop is inside
\* reconcileDeployment; the event waits in the channel
OneTickAtATimeWitness ==
    /\ up
    /\ At("workload", {"reconcile"})
    /\ run.loop["workload"].ticker = 1
    /\ run.loop["workload"].inTick = 1

(***************************************************************************)
(* SpecTickerFair: SpecTicker with the scheduling the Go runtime gives.    *)
(* Weak fairness of the tick: a goroutine that can go on with its tick     *)
(* does so (it is scheduled, its runtime call returns, the RWMutex is      *)
(* handed over).  Strong fairness of the ctx.Done() case: a select with    *)
(* several ready cases picks one at random, so a loop that comes back to   *)
(* its select again and again with ctx.Done() ready does not pick the      *)
(* ticker case for ever.  Nothing obliges a ticker to fire or the context  *)
(* to be cancelled.                                                        *)
(***************************************************************************)
\* the step changes the position of the goroutine of loop g
Moves(g) ==
    \/ run'.loop[g] # run.loop[g]
    \/ Running(g) /\ (g \notin DOMAIN pc' \/ pc'[g] # pc[g])

\* a statement of the tick of loop g, or the return of the tick
TickStep(g) ==
    /\ run.loop[g].at = "tick"
    /\ \/ LoopTickReturns
       \/ LoopRLock \/ LoopRUnlock \/ LoopLock \/ LoopUnlock
       \/ g = "workload" /\ WorkloadReconcile
       \/ g = "service" /\ (ServiceFind \/ ServiceStatus)
       \/ g = "node" /\ (NodeInfo \/ NodePut)
    /\ Moves(g)

\* the select of loop g takes the ctx.Done() case
ReturnStep(g) ==
    /\ run.loop[g].at = "select" /\ CtxDone
    /\ LoopReturns
    /\ run'.loop[g].at = "returned"

SpecTickerFair ==
    /\ InitTicker /\ [][NextTicker]_vars
    /\ \A g \in Loops : WF_vars(TickStep(g)) /\ SF_vars(ReturnStep(g))

(***************************************************************************)
(* C30  The loops return after cancellation.                               *)
(***************************************************************************)
\* C30: once the context is cancelled, each of the three control loops
\* eventually returns from Run.
LoopsReturnAfterCancel ==
    \A g \in Loops : run.cancelled ~> (run.loop[g].at = "returned")

\* the context is cancelled, the node reporter has completed a tick, and
\* all three loops have returned
LoopsReturnAfterCancelWitness ==
    /\ up
    /\ run.cancelled
    /\ \A g \in Loops : run.loop[g].at = "returned"
    /\ nodes # EmptyMap

(***************************************************************************)
(* SpecRange: the workload loop statement by statement, next to one        *)
(* request that creates a Deployment or a StatefulSet or deletes the       *)
(* Deployment.                                                             *)
(***************************************************************************)
RangeOps == {"createDeployment", "createStatefulSet", "deleteDeployment"}

RangeBegin == \E op \in RangeOps : Serve("req", op)

\* the workload ticker fires
WorkloadBegin == LoopBegin /\ "workload" \in DOMAIN pc'

NextRange ==
    \/ RangeBegin \/ RequestLock \/ RequestUnlock
    \/ RequestMapWrite \/ RequestSnapshotIO \/ RequestReply
    \/ WorkloadBegin \/ LoopRLock \/ LoopRUnlock
    \/ WorkloadReconcile

SpecRange == Init /\ [][NextRange]_vars

\* the tick has read the store: it is past the RLock it begins with
TickReading == Running("workload") /\ pc["workload"].at # "rlock"

\* the workloads the running tick goes on to process if the store stays as
\* it is: what its range has left of the map it is in, and every StatefulSet
\* while it is still in the range over the Deployments
RemainingWorkloads ==
    IF ~TickReading THEN {}
    ELSE LET p == pc["workload"]
             left == {<<p.phase, p.todo[i]>> : i \in 1 .. Len(p.todo)}
             live == {w \in left : w[2] \in DOMAIN StoreOf(w[1])}
         IN  IF p.phase = "deployments"
             THEN live \cup {<<"statefulsets", n>> : n \in DOMAIN statefulsets}
             ELSE live

(***************************************************************************)
(* C31  A workload tick works on a snapshot.                               *)
(***************************************************************************)
\* C31: a workload created or deleted through the API while a workload tick
\* is running does not change the set of workloads that tick processes: the
\* tick processes exactly the workloads that were in the store when it began.
TickWorksOnSnapshot ==
    [][(TickReading /\ TickReading'
        /\ <<deployments, statefulsets>>' # <<deployments, statefulsets>>)
       => RemainingWorkloads' = RemainingWorkloads]_vars

(***************************************************************************)
(* C32  NodePort status: one ingress entry at the loopback address.        *)
(***************************************************************************)
\* the services after a service tick, begun in this state, whose listings
\* all succeed
AfterServiceTick(order) ==
    reconcileEachService([svcs |-> services, seen |-> EmptyMap], services,
                         RangeOrder(DOMAIN services, order), {}, order).svcs

\* C32: after a service tick whose container listing succeeds, every stored
\* Service of type NodePort has a status with exactly one ingress entry, the
\* loopback address 127.0.0.1.
NodePortIngress ==
    \A order \in ListOrders :
        LET svcs == AfterServiceTick(order) IN
        \A n \in DOMAIN svcs :
            svcs[n].type = ServiceTypeNodePort
                => svcs[n].ingress = <<LocalNodeIP>>

\* a tick has written the status of the stored NodePort Service, which
\* targets the container of the frontend Deployment
NodePortIngressWitness ==
    /\ up
    /\ "web" \in DOMAIN services
    /\ services["web"].type = ServiceTypeNodePort
    /\ services["web"].ingress = <<LocalNodeIP>>
    /\ "web" \in DOMAIN lastTargets
    /\ Len(lastTargets["web"].targets) >= 1

(***************************************************************************)
(* SpecWriters: two requests at a time that create, update or delete the   *)
(* Deployment frontend, statement by statement; every snapshot write       *)
(* succeeds.                                                               *)
(***************************************************************************)
WriterOps == {"createDeployment", "updateDeployment", "deleteDeployment"}

WritersBegin == \E g \in Requests, op \in WriterOps : Serve(g, op)

NextWriters ==
    \/ WritersBegin \/ RequestLock \/ RequestUnlock
    \/ RequestMapWrite \/ RequestSnapshotIO \/ RequestReply

SpecWriters == Init /\ [][NextWriters]_vars

(***************************************************************************)
(* C33  The last writer in memory is the last writer on disk.              *)
(***************************************************************************)
\* C33: once all concurrent create, update and delete calls on one
\* (kind, name) have returned, the snapshot file exists if and only if the
\* in-memory entry exists, and holds the same value: a restart reloads
\* exactly the in-memory state (the spec of each entry; the creation time is
\* written in whole seconds).
LastWriterOnDisk ==
    pc = NoGoroutines =>
        LET disk == LoadCategory(files, "deployments") IN
        /\ DOMAIN disk = DOMAIN deployments
        /\ \A n \in DOMAIN disk : SpecOf(disk[n]) = SpecOf(deployments[n])

(***************************************************************************)
(* C34  A scale is durable.                                                *)
(***************************************************************************)
\* C34: after a workload is scaled to N through the scale endpoint and the
\* process is then restarted, the stored replica count of that workload is
\* N: a restart leaves the replica count of every stored Deployment and
\* StatefulSet as it was.
ScaleSurvivesRestart ==
    [][Restart =>
          \A c \in {"deployments", "statefulsets"} :
              \A n \in DOMAIN StoreOf(c) :
                  /\ n \in DOMAIN StoreOf(c)'
                  /\ StoreOf(c)'[n].replicas = StoreOf(c)[n].replicas]_vars

(***************************************************************************)
(* SpecOrphanFair: Deployment frontend and StatefulSet db, of one replica   *)
(* each, are created and deleted, the process restarts, and the workload   *)
(* ticker keeps firing on a runtime in which no call fails.                *)
(***************************************************************************)
SubmitOneFrontend ==
    up /\ createDeploymentHandler(
              Body(Manifest("Deployment", "frontend", Nil, <<Nginx>>, {}, "")),
              Now, TRUE)

NextOrphan ==
    \/ SubmitOneFrontend \/ DeleteFrontend
    \/ SubmitDb \/ DeleteDb
    \/ WorkloadTickOK
    \/ Restart

\* the ticker of WorkloadController.Run fires every 5 seconds
SpecOrphanFair == Init /\ [][NextOrphan]_vars /\ WF_vars(WorkloadTickOK)

(***************************************************************************)
(* C35  Containers of a deleted workload are eventually removed.           *)
(***************************************************************************)
\* C35: after a Deployment or StatefulSet is deleted from the store, with
\* the runtime succeeding, eventually no container created for it remains
\* in the runtime, unless a workload of that name is stored again.
NoOrphansForever ==
    /\ ("frontend" \notin DOMAIN deployments)
           ~> (ContainersOf("frontend") = 0 \/ "frontend" \in DOMAIN deployments)
    /\ ("db" \notin DOMAIN statefulsets)
           ~> (ContainersOf("db") = 0 \/ "db" \in DOMAIN statefulsets)

(***************************************************************************)
(* C36  No out-of-range failure on a short container id.                   *)
(***************************************************************************)
\* C36: for every id the runtime's create can return, ids shorter than
\* IdPrefixLen (12) characters included, a successful create and start in
\* createPodFromTemplate completes without an out-of-range failure: a tick
\* in which no runtime call fails never ends the process.
NoOutOfRange ==
    /\ up
    /\ \A order \in ListOrders : ~reconcileWorkloadsResult({}, order).panic

(***************************************************************************)
(* C37  Pods of several containers are left alone once they exist.         *)
(***************************************************************************)
\* the ids of the containers of the desired pods of workload w
DesiredIds(w) ==
    {ReplicaId(w, i, j) : i \in 0 .. Desired(w) - 1, j \in 1 .. Len(w.template)}

\* every container of every desired pod of w exists
AllPodsCreated(w) == \A id \in DesiredIds(w) : IdInUse(containers, id)

StatusOps == {"createService", "updateService", "deleteService"}

StatusBegin == \E op \in StatusOps : Serve("req", op)

\* the service ticker fires
ServiceBegin == LoopBegin /\ "service" \in DOMAIN pc'

NextStatus ==
    \/ StatusBegin \/ RequestLock \/ RequestUnlock
    \/ RequestMapWrite \/ RequestSnapshotIO \/ RequestReply
    \/ ServiceBegin \/ LoopRLock \/ LoopRUnlock \/ LoopLock \/ LoopUnlock
    \/ ServiceFind \/ ServiceStatus

SpecStatus == Init /\ [][NextStatus]_vars

\* the step is the body of updateServiceStatus
StatusWritten ==
    /\ At("service", {"status"})
    /\ "service" \notin DOMAIN pc' \/ pc'["service"] # pc["service"]

(***************************************************************************)
(* C38  The status a tick writes follows the stored Service.               *)
(***************************************************************************)
\* C38: when a Service is replaced or deleted through the API while a
\* service tick is in flight, the tick's status write inserts no Service,
\* and it leaves every stored Service whose type is not NodePort as it is:
\* such a Service never receives a NodePort ingress entry.
StatusFollowsStore ==
    [][StatusWritten =>
          /\ DOMAIN services' = DOMAIN services
          /\ \A n \in DOMAIN services :
                 services[n].type # ServiceTypeNodePort
                     => services'[n] = services[n]]_vars

(***************************************************************************)
(* C39  (kind, name) is the primary key of every deletion.                 *)
(***************************************************************************)
\* the stored workloads as (kind, name) pairs
WorkloadEntries ==
    UNION {{<<c, n>> : n \in DOMAIN StoreOf(c)} :
              c \in {"pods", "deployments", "statefulsets"}}

\* C39: a delete request removes at most one resource: when a Deployment, a
\* StatefulSet and a Pod share a name, a call through a kind endpoint or
\* through the generic workload endpoint removes the entry of one kind and
\* leaves the entries of the other kinds with that name in the store.
KindNameIsKey ==
    [][(up /\ up' /\ ~Restart)
          => Cardinality(WorkloadEntries \ WorkloadEntries') <= 1]_vars

(***************************************************************************)
(* SpecAlias: the workload loop statement by statement over the stored     *)
(* Deployment frontend, next to one request that scales or deletes it.     *)
(* The maps hold pointers: the range variable of reconcileWorkloads and    *)
(* the map entry are the same object.  No handler of this specification    *)
(* stores a new object, so they stay the same object for as long as the    *)
(* name is in the map.                                                     *)
(***************************************************************************)
AliasOps == {"scaleDeployment", "deleteDeployment"}
\* the replica counts of the scale requests
AliasScaleInputs == {1, 2}

AliasBegin == \E op \in AliasOps : Serve("req", op)

\* the workload loop is inside reconcileDeployment, which reads the fields
\* of its argument, and the argument is the stored object of that name
ReadsStored(name) ==
    /\ At("workload", {"reconcile"})
    /\ pc["workload"].phase = "deployments"
    /\ pc["workload"].cur.name = name
    /\ name \in DOMAIN deployments

\* if deployment, exists := s.deployments[name]; exists {
\*     deployment.Spec.Replicas = &scaleReq.Spec.Replicas }
\* the write goes to the object, so every pointer to it sees the new count
RequestScale ==
    \E g \in Requests, k \in AliasScaleInputs :
        /\ up /\ AtStmt(g, {"Scale"})
        /\ deployments' =
               IF LockedName \in DOMAIN deployments
               THEN [deployments EXCEPT ![LockedName].replicas = Ptr(k)]
               ELSE deployments
        /\ pc' = IF ReadsStored(LockedName)
                 THEN [Advanced(g, 1) EXCEPT !["workload"].cur.replicas = Ptr(k)]
                 ELSE Advanced(g, 1)
        /\ UNCHANGED <<pods, statefulsets, services, nodes, files, containers,
                       up, coarseVars, run, mutex>>

NextAlias ==
    \/ AliasBegin \/ RequestLock \/ RequestUnlock
    \/ RequestScale \/ RequestMapWrite \/ RequestSnapshotIO \/ RequestReply
    \/ WorkloadBegin \/ LoopRLock \/ LoopRUnlock
    \/ WorkloadReconcile

SpecAlias == InitTicker /\ [][NextAlias]_vars

(***************************************************************************)
(* C40  Stored objects are read under the lock or from a private copy.     *)
(***************************************************************************)
\* C40: there is no reachable state in which a handler is writing a stored
\* object in place (scale setting spec.replicas) while the workload
\* reconciler is reading that same object without holding the store lock.
NoUnlockedReadDuringWrite ==
    \A g \in Requests :
        ~(/\ AtStmt(g, {"Scale"})
          /\ ReadsStored(LockedName)
          /\ ~Holds("workload"))

=============================================================================
